---- MODULE Spec2Model ----
(***************************************************************************)
(* Model of the chat turn orchestration of Multimodal-Insight-Observer:    *)
(*   - the Chat component's attachment state and handleSend routing        *)
(*     (src/unnamed/part_000), specification Spec;                         *)
(*   - the tool-call loops chatWithCsvTools / chatWithJsonTools of both    *)
(*     provider backends (src/src/services/gemini.js), with the Stop       *)
(*     button within reach, specification LoopSpec;                        *)
(*   - the structured-record tool executor (src/src/services/jsonTools.js) *)
(*     and the generateImage branch of handleSend, specification ExecSpec; *)
(*   - a conversation turn by turn: user message, streaming or tool-mode   *)
(*     answer, abort, provider failure and what is saved                   *)
(*     (src/unnamed/part_000, gemini.js), specification TurnSpec;          *)
(*   - two calls of handleSend racing through session creation             *)
(*     (src/unnamed/part_000), specification SendSpec;                     *)
(*   - a CSV file from parseCSV to the code-execution prompt               *)
(*     (src/unnamed/part_000), specification ParseSpec;                    *)
(*   - one call of durationToSeconds (jsonTools.js), specification         *)
(*     DurationSpec;                                                       *)
(*   - the tool catalogs and the schema adapter toOpenAITools              *)
(*     (gemini.js, jsonTools.js, src/unnamed/part_002), specification      *)
(*     AdapterSpec;                                                        *)
(*   - session selection, message loads and the Stop button around a turn  *)
(*     (src/unnamed/part_000, src/server/index.js), specification ViewSpec *)
(*     and, with the promises of handleSend settling, ViewFairSpec.        *)
(***************************************************************************)
EXTENDS Integers, Sequences, FiniteSets, TLC

VARIABLES
    \* ---- Chat component state (part_000:119-143) ----
    interviewContext,   \* prop: TRUE when an interview context was passed in
    activeSessionId,    \* "null" | "new" | a session id
    sessions,           \* ids of the sessions listed in the sidebar
    input,              \* the typed text, a sequence of lower-cased words
    images,             \* TRUE when at least one image is attached
    csvContext,         \* pending CSV chip: "null" or the file name
    sessionCsvRows,     \* parsed rows: "null" or the file they came from
    sessionCsvHeaders,
    csvDataSummary,
    sessionSlimCsv,
    jsonContext,        \* pending JSON chip: "null" or the file name
    sessionJsonData,    \* "null" | "empty" (the array []) | "videos"
    streaming,          \* in-flight flag
    initPending,        \* the login effect's getSessions has not resolved yet
    abortRef,           \* abortRef.current
    \* ---- handleSend in flight ----
    tpc,                \* position of the running handleSend
    turn,               \* values captured by the handleSend closure + routing
    dispatched,         \* the service call handleSend made for the turn
    \* ---- tool-call loop (gemini.js) ----
    backend,            \* USE_OPENAI: "openai" | "gemini"
    fn,                 \* "chatWithCsvTools" | "chatWithJsonTools"
    lpc,                \* position of the loop
    round,              \* the for-loop counter
    invocations,        \* provider calls made so far
    response,           \* the provider response being inspected
    sent,               \* the conversation handed to the provider last
    chatHistory,        \* Gemini ChatSession history
    toolCalls,
    charts,
    generatedImages,
    requested,          \* history: the calls requested in the rounds run so far
    returned,           \* the value the loop returned
    \* ---- one call of the structured-record executor (jsonTools.js) ----
    toolName,
    toolArgs,           \* the argument mapping; a missing key holds "null"
    videos,             \* sessionJsonData as passed in: [isArray, rows]
    anchor,             \* capturedImages[0] exists
    imageApi,           \* what generateImageApi resolves to: "data" | "error"
    epc,                \* "call" | "returned" | "thrown"
    outcome,            \* the value returned, or the exception thrown
    \* ---- one conversation: message list, store and handleSend locals ----
    chatMessages,       \* messages: the displayed message list
    store,              \* the saveMessage calls made, in order
    history,            \* the history handed to the provider in this turn
    stream,             \* what the streamChat generator will still deliver
    fullContent,
    structuredParts,    \* [set, parts]: null, or the bundle
    groundingData,      \* TRUE when a grounding chunk was taken
    toolCharts,
    turnToolCalls,      \* handleSend's local toolCalls
    applied,            \* history: the chunks applied to the assistant message
    abortObserved,      \* history: the stream loop broke on the flag
    caught,             \* history: the catch block of handleSend ran
    turns,              \* turns started in this conversation
    \* ---- a second call of handleSend, made while the first is running ----
    tpc2,               \* its position, as tpc is that of the first
    \* ---- one CSV file on its way into a code-execution prompt ----
    csvText,            \* the text read from the file
    parsed,             \* what parseCSV returned for it
    prefix,             \* the csvPrefix built from it
    ppc,                \* "off" | "read" | "parsed" | "ignored" | "built"
    \* ---- one call of durationToSeconds ----
    durText,            \* the value handed to it
    seconds,            \* what it returned
    dpc,                \* "off" | "call" | "done"
    \* ---- one call of toOpenAITools ----
    declarations,       \* the catalog handed to it, as it is now
    tools,              \* what it returned
    renormalized,       \* normalizeParams of each returned parameter schema
    apc,                \* "off" | "call" | "adapted" | "again"
    \* ---- sessions, message loads and the Stop button around a turn ----
    loads,              \* the sessions whose loadMessages has not resolved yet
    stopped             \* history: Stop was clicked since the turn set streaming

chatVars == <<interviewContext, activeSessionId, sessions, input, images,
              csvContext, sessionCsvRows, sessionCsvHeaders, csvDataSummary,
              sessionSlimCsv, jsonContext, sessionJsonData, streaming, initPending,
              abortRef, tpc, turn, dispatched>>

loopVars == <<backend, fn, lpc, round, invocations, response, sent, chatHistory,
              toolCalls, charts, generatedImages, requested, returned>>

execVars == <<toolName, toolArgs, videos, anchor, imageApi, epc, outcome>>

turnVars == <<chatMessages, store, history, stream, fullContent, structuredParts,
              groundingData, toolCharts, turnToolCalls, applied, abortObserved, caught,
              turns>>

secondVars == <<tpc2>>

parseVars == <<csvText, parsed, prefix, ppc>>

durationVars == <<durText, seconds, dpc>>

\* The variables of the smaller machines added to the first six groups.
adapterVars == <<declarations, tools, renormalized, apc>>

viewVars == <<loads, stopped>>

restVars == <<durationVars, adapterVars, viewVars>>

nonChatVars == <<loopVars, execVars, turnVars, secondVars, parseVars, restVars>>
nonLoopVars == <<chatVars, execVars, turnVars, secondVars, parseVars, restVars>>
coreVars == <<chatVars, loopVars, execVars, turnVars, secondVars, parseVars>>

vars == <<coreVars, restVars>>

NULL == "null"

(***************************************************************************)
(* Inputs                                                                  *)
(***************************************************************************)

\* Texts the user may type, as word sequences (input.trim() lower-cased).
Texts ==
    { <<>>,
      <<"show", "histogram">>,
      <<"draw", "heatmap">>,
      <<"plot", "views">>,
      <<"average", "views">> }

CsvFiles == {"data.csv"}
JsonFiles == {"channel.json"}
\* What JSON.parse and the videos extraction yield for a dropped .json file.
JsonPayloads == {"invalid", "empty", "videos"}
\* What parseCSV yields for a dropped .csv file.
CsvPayloads == {"blank", "rows"}
SessionIds == {"s1", "s2"}
\* The sessions the store already holds for the user at login.
DbSessions == {"s1"}

(***************************************************************************)
(* Routing policy: handleSend, part_000:400-418                            *)
(***************************************************************************)

\* The alternatives of the two keyword regular expressions. Both are of the
\* form /\b(a|b|...)\b/i: a text matches when one of its words is one of the
\* alternatives (alternatives with an optional separator are listed joined).
PYTHON_ONLY_KEYWORDS ==
    {"regression", "scatter", "histogram", "seaborn", "matplotlib", "numpy",
     "timeseries", "heatmap", "boxplot", "violin", "distribut", "linearmodel",
     "logistic", "forecast", "trendline"}

CODE_KEYWORDS ==
    {"plot", "chart", "graph", "analyz", "statistic", "regression", "correlat",
     "histogram", "visualiz", "calculat", "compute", "run code", "write code",
     "execute", "pandas", "numpy", "matplotlib", "csv", "data"}

RegexTest(keywords, text) == \E i \in DOMAIN text : text[i] \in keywords

wantPythonOnly(text) == RegexTest(PYTHON_ONLY_KEYWORDS, text)

wantCode(text, rows) == RegexTest(CODE_KEYWORDS, text) /\ rows = NULL

needsBase64_always(capturedCsv, wpo) == capturedCsv # NULL

needsBase64(capturedCsv, wpo) == capturedCsv # NULL /\ wpo

useJsonTools_nonEmpty(jsonData, wc) == jsonData = "videos" /\ ~wc

useJsonTools(jsonData, wc) == jsonData # NULL /\ ~wc

useTools_ignoreFreshDrop(rows, wpo, wc, capturedCsv, ujt) ==
    rows # NULL /\ ~wpo /\ ~wc /\ ~ujt

useTools_onlyFreshDrop(rows, wpo, wc, capturedCsv, ujt) ==
    rows # NULL /\ ~wpo /\ ~wc /\ capturedCsv # NULL /\ ~ujt

useTools(rows, wpo, wc, capturedCsv, ujt) ==
    rows # NULL /\ ~wpo /\ ~wc /\ capturedCsv = NULL /\ ~ujt

useCodeExecution_pythonOnly(wpo, wc, ujt) == wpo

useCodeExecution(wpo, wc, ujt) == wpo \/ (wc /\ ~ujt)

\* csvPrefix, part_000:429-455: which form of the CSV prefix the prompt gets.
csvPrefix(capturedCsv, nb64, summary) ==
    IF capturedCsv # NULL
    THEN (IF nb64 THEN "base64" ELSE "plain")
    ELSE (IF summary # NULL THEN "summary" ELSE "none")

\* jsonPrefix, part_000:460-467
jsonPrefix(capturedJson, jsonData) == capturedJson # NULL \/ jsonData = "videos"

\* The values one call of handleSend reads from its render closure and the
\* routing flags it computes from them.
RouteOf(text, imgs, cCsv, cJson, rows, jsonData, summary, interview) ==
    LET wpo == wantPythonOnly(text)
        wc  == wantCode(text, rows)
        nb  == needsBase64(cCsv, wpo)
        ujt == useJsonTools(jsonData, wc)
        ut  == useTools(rows, wpo, wc, cCsv, ujt)
        uce == useCodeExecution(wpo, wc, ujt)
    IN  [ text |-> text, images |-> imgs,
          capturedCsv |-> cCsv, capturedJson |-> cJson,
          sessionCsvRows |-> rows, sessionJsonData |-> jsonData,
          wantPythonOnly |-> wpo, wantCode |-> wc, needsBase64 |-> nb,
          useJsonTools |-> ujt, useTools |-> ut, useCodeExecution |-> uce,
          prompt |-> [ csvPrefix |-> csvPrefix(cCsv, nb, summary),
                       jsonPrefix |-> jsonPrefix(cJson, jsonData),
                       interviewPrefix |-> interview,
                       text |-> text ] ]

NoTurn == RouteOf(<<>>, FALSE, NULL, NULL, NULL, NULL, NULL, FALSE)

\* The mode dispatch of handleSend, part_000:542-623.
Dispatch(t) ==
    IF t.useJsonTools
    THEN [ call |-> "chatWithJsonTools", useCodeExecution |-> FALSE,
           prompt |-> t.prompt, data |-> t.sessionJsonData ]
    ELSE IF t.useTools
    THEN [ call |-> "chatWithCsvTools", useCodeExecution |-> FALSE,
           prompt |-> t.prompt, data |-> t.sessionCsvRows ]
    ELSE [ call |-> "streamChat", useCodeExecution |-> t.useCodeExecution,
           prompt |-> t.prompt, data |-> NULL ]

NoDispatch == [ call |-> NULL, useCodeExecution |-> FALSE,
                prompt |-> NoTurn.prompt, data |-> NULL ]

(***************************************************************************)
(* Chat component: mount, session management, file handling                *)
(***************************************************************************)

\* State after the component is constructed and its mount effects have run
\* (part_000:119-177). App (part_003:49-66) mounts a fresh Chat whenever the
\* chat tab is shown, with or without an interview context.
ChatInit ==
    /\ interviewContext \in BOOLEAN
    /\ activeSessionId = (IF interviewContext THEN "new" ELSE NULL)
    /\ sessions = {}
    /\ input = <<>>
    /\ images = FALSE
    /\ csvContext = NULL
    /\ sessionCsvRows = NULL
    /\ sessionCsvHeaders = NULL
    /\ csvDataSummary = NULL
    /\ sessionSlimCsv = NULL
    /\ jsonContext = (IF interviewContext THEN "Interview Video" ELSE NULL)
    /\ sessionJsonData = (IF interviewContext THEN "videos" ELSE NULL)
    /\ streaming = FALSE
    /\ initPending = TRUE
    /\ abortRef = FALSE
    /\ tpc = "idle"
    /\ turn = NoTurn
    /\ dispatched = NoDispatch

\* The login effect, part_000:146-153.
LoginInit ==
    /\ initPending
    /\ initPending' = FALSE
    /\ sessions' = DbSessions \cup sessions
    /\ activeSessionId' = "new"
    /\ UNCHANGED <<interviewContext, input, images, csvContext, sessionCsvRows,
                   sessionCsvHeaders, csvDataSummary, sessionSlimCsv, jsonContext,
                   sessionJsonData, streaming, abortRef, tpc, turn, dispatched>>
    /\ UNCHANGED nonChatVars

\* onClearInterviewContext, part_000:979 and part_003:56.
ClearInterviewContext ==
    /\ interviewContext
    /\ interviewContext' = FALSE
    /\ UNCHANGED <<activeSessionId, sessions, input, images, csvContext,
                   sessionCsvRows, sessionCsvHeaders, csvDataSummary,
                   sessionSlimCsv, jsonContext, sessionJsonData, streaming,
                   initPending, abortRef, tpc, turn, dispatched>>
    /\ UNCHANGED nonChatVars

\* handleNewChat, part_000:192-202.
HandleNewChat ==
    /\ activeSessionId' = "new"
    /\ input' = <<>>
    /\ images' = FALSE
    /\ csvContext' = NULL
    /\ sessionCsvRows' = NULL
    /\ sessionCsvHeaders' = NULL
    /\ jsonContext' = NULL
    /\ sessionJsonData' = NULL
    /\ UNCHANGED <<interviewContext, sessions, csvDataSummary, sessionSlimCsv,
                   streaming, initPending, abortRef, tpc, turn, dispatched>>
    /\ UNCHANGED nonChatVars

\* handleSelectSession, part_000:204-214.
HandleSelectSession ==
    \E sessionId \in sessions :
        /\ sessionId # activeSessionId
        /\ activeSessionId' = sessionId
        /\ input' = <<>>
        /\ images' = FALSE
        /\ csvContext' = NULL
        /\ sessionCsvRows' = NULL
        /\ sessionCsvHeaders' = NULL
        /\ jsonContext' = NULL
        /\ sessionJsonData' = NULL
        /\ UNCHANGED <<interviewContext, sessions, csvDataSummary, sessionSlimCsv,
                       streaming, initPending, abortRef, tpc, turn, dispatched>>
    /\ UNCHANGED nonChatVars

HandleDropJson_keepsCsv ==
    /\ \E file \in JsonFiles :
        /\ jsonContext' = file
        /\ sessionJsonData' = "videos"
        /\ UNCHANGED <<interviewContext, activeSessionId, sessions, input, images,
                       csvContext, sessionCsvRows, sessionCsvHeaders,
                       csvDataSummary, sessionSlimCsv, streaming, initPending,
                       abortRef, tpc, turn, dispatched>>
    /\ UNCHANGED nonChatVars

\* The .json branch of handleDrop / handleFileSelect, part_000:255-270 and
\* 310-324: runs as one block once the file text has been read.
HandleDropJson ==
    \E file \in JsonFiles, payload \in JsonPayloads :
        /\ IF payload = "invalid"
           THEN UNCHANGED <<jsonContext, sessionJsonData, csvContext,
                            sessionCsvRows, sessionCsvHeaders>>
           ELSE /\ jsonContext' = file
                /\ sessionJsonData' = payload
                /\ csvContext' = NULL
                /\ sessionCsvRows' = NULL
                /\ sessionCsvHeaders' = NULL
        /\ UNCHANGED <<interviewContext, activeSessionId, sessions, input, images,
                       csvDataSummary, sessionSlimCsv, streaming, initPending,
                       abortRef, tpc, turn, dispatched>>
    /\ UNCHANGED nonChatVars

\* The .csv branch of handleDrop / handleFileSelect, part_000:272-288 and
\* 326-342; parseCSV (part_000:36-52) yields null for a file with no
\* non-blank line.
HandleDropCsv ==
    \E file \in CsvFiles, payload \in CsvPayloads :
        /\ IF payload = "blank"
           THEN UNCHANGED <<csvContext, sessionCsvHeaders, sessionCsvRows,
                            csvDataSummary, sessionSlimCsv, jsonContext,
                            sessionJsonData>>
           ELSE /\ csvContext' = file
                /\ sessionCsvHeaders' = file
                /\ sessionCsvRows' = file
                /\ csvDataSummary' = file
                /\ sessionSlimCsv' = file
                /\ jsonContext' = NULL
                /\ sessionJsonData' = NULL
        /\ UNCHANGED <<interviewContext, activeSessionId, sessions, input, images,
                       streaming, initPending, abortRef, tpc, turn, dispatched>>
    /\ UNCHANGED nonChatVars

\* The image branch of handleDrop / handleFileSelect / handlePaste
\* (part_000:290-299, 343-352, 357-376) and removeImage (part_000:659).
SetImages ==
    /\ images' \in BOOLEAN
    /\ images' # images
    /\ UNCHANGED <<interviewContext, activeSessionId, sessions, input, csvContext,
                   sessionCsvRows, sessionCsvHeaders, csvDataSummary,
                   sessionSlimCsv, jsonContext, sessionJsonData, streaming,
                   initPending, abortRef, tpc, turn, dispatched>>
    /\ UNCHANGED nonChatVars

\* The remove button of the CSV chip, part_000:970.
RemoveCsvChip ==
    /\ csvContext # NULL
    /\ csvContext' = NULL
    /\ UNCHANGED <<interviewContext, activeSessionId, sessions, input, images,
                   sessionCsvRows, sessionCsvHeaders, csvDataSummary,
                   sessionSlimCsv, jsonContext, sessionJsonData, streaming,
                   initPending, abortRef, tpc, turn, dispatched>>
    /\ UNCHANGED nonChatVars

\* The remove button of the JSON chip, part_000:991.
RemoveJsonChip ==
    /\ jsonContext # NULL
    /\ jsonContext' = NULL
    /\ sessionJsonData' = NULL
    /\ UNCHANGED <<interviewContext, activeSessionId, sessions, input, images,
                   csvContext, sessionCsvRows, sessionCsvHeaders, csvDataSummary,
                   sessionSlimCsv, streaming, initPending, abortRef, tpc, turn,
                   dispatched>>
    /\ UNCHANGED nonChatVars

\* Typing into the textarea, which is disabled while streaming
\* (part_000:1022-1035).
TypeInput ==
    \E t \in Texts :
        /\ ~streaming
        /\ t # input
        /\ input' = t
        /\ UNCHANGED <<interviewContext, activeSessionId, sessions, images,
                       csvContext, sessionCsvRows, sessionCsvHeaders,
                       csvDataSummary, sessionSlimCsv, jsonContext,
                       sessionJsonData, streaming, initPending, abortRef, tpc,
                       turn, dispatched>>
    /\ UNCHANGED nonChatVars

\* handleStop, part_000:378-380; the Stop button is shown while streaming.
HandleStop ==
    /\ streaming
    /\ ~abortRef
    /\ abortRef' = TRUE
    /\ UNCHANGED <<interviewContext, activeSessionId, sessions, input, images,
                   csvContext, sessionCsvRows, sessionCsvHeaders, csvDataSummary,
                   sessionSlimCsv, jsonContext, sessionJsonData, streaming,
                   initPending, tpc, turn, dispatched>>
    /\ UNCHANGED nonChatVars

(***************************************************************************)
(* handleSend, part_000:384-657                                            *)
(***************************************************************************)

\* part_000:498-514: the state updates made once the prompt is built.
BeginTurn ==
    /\ input' = <<>>
    /\ images' = FALSE
    /\ csvContext' = NULL
    /\ jsonContext' = NULL
    /\ streaming' = TRUE
    /\ tpc' = "saveUser"

\* part_000:385-387: the guard of handleSend.
CanSend ==
    LET text == input
        hasInterviewOnly == interviewContext /\ text = <<>> /\ ~images
                            /\ csvContext = NULL /\ jsonContext = NULL
    IN  ~( (text = <<>> /\ ~images /\ csvContext = NULL /\ jsonContext = NULL
            /\ ~hasInterviewOnly)
           \/ streaming
           \/ activeSessionId = NULL )

\* The call of handleSend up to its first await. The routing flags are
\* computed from the values of the render closure the call was made in, so
\* they are fixed here even when createSession is awaited first. One call
\* is followed at a time (tpc = "idle"); the routing of a call depends on
\* its own closure only.
HandleSend ==
    /\ tpc = "idle"
    /\ CanSend
    /\ turn' = RouteOf(input, images, csvContext, jsonContext, sessionCsvRows,
                       sessionJsonData, csvDataSummary, interviewContext)
    /\ dispatched' = NoDispatch
    /\ IF activeSessionId = "new"
       THEN /\ SessionIds \ (sessions \cup DbSessions) # {}
            /\ tpc' = "createSession"
            /\ UNCHANGED <<input, images, csvContext, jsonContext, streaming>>
       ELSE BeginTurn
    /\ UNCHANGED <<interviewContext, activeSessionId, sessions, sessionCsvRows,
                   sessionCsvHeaders, csvDataSummary, sessionSlimCsv,
                   sessionJsonData, initPending, abortRef>>
    /\ UNCHANGED nonChatVars

\* part_000:391-398: createSession resolved.
SessionCreated ==
    /\ tpc = "createSession"
    /\ \E id \in SessionIds \ (sessions \cup DbSessions) :
           /\ activeSessionId' = id
           /\ sessions' = sessions \cup {id}
    /\ BeginTurn
    /\ UNCHANGED <<interviewContext, sessionCsvRows, sessionCsvHeaders,
                   csvDataSummary, sessionSlimCsv, sessionJsonData, initPending,
                   abortRef, turn, dispatched>>
    /\ UNCHANGED nonChatVars

\* part_000:517-623: the user message is saved, the abort flag reset and the
\* turn handed to the service selected by the routing flags.
UserSaved ==
    /\ tpc = "saveUser"
    /\ abortRef' = FALSE
    /\ dispatched' = Dispatch(turn)
    /\ tpc' = "provider"
    /\ UNCHANGED <<interviewContext, activeSessionId, sessions, input, images,
                   csvContext, sessionCsvRows, sessionCsvHeaders, csvDataSummary,
                   sessionSlimCsv, jsonContext, sessionJsonData, streaming,
                   initPending, turn>>
    /\ UNCHANGED nonChatVars

\* part_000:632-656: the turn ends and the in-flight flag is cleared.
TurnEnd ==
    /\ tpc = "provider"
    /\ streaming' = FALSE
    /\ tpc' = "idle"
    /\ turn' = NoTurn
    /\ dispatched' = NoDispatch
    /\ UNCHANGED <<interviewContext, activeSessionId, sessions, input, images,
                   csvContext, sessionCsvRows, sessionCsvHeaders, csvDataSummary,
                   sessionSlimCsv, jsonContext, sessionJsonData, initPending,
                   abortRef>>
    /\ UNCHANGED nonChatVars

ChatNext ==
    \/ LoginInit
    \/ ClearInterviewContext
    \/ HandleNewChat
    \/ HandleSelectSession
    \/ HandleDropJson
    \/ HandleDropCsv
    \/ SetImages
    \/ RemoveCsvChip
    \/ RemoveJsonChip
    \/ TypeInput
    \/ HandleStop
    \/ HandleSend
    \/ SessionCreated
    \/ UserSaved
    \/ TurnEnd


(***************************************************************************)
(* Tool-call loop: chatWithCsvTools / chatWithJsonTools, gemini.js:180-341 *)
(***************************************************************************)

\* Most tool-call requests the provider stub puts in one response.
MaxCalls == 2

\* The round ceilings of the two loops (gemini.js:196,242 and 279,326).
CsvRoundCeiling == 5
JsonRoundCeiling == 8

Backends == {"openai", "gemini"}
LoopFns == {"chatWithCsvTools", "chatWithJsonTools"}

RECURSIVE Flatten(_)
Flatten(ss) == IF ss = <<>> THEN <<>> ELSE Head(ss) \o Flatten(Tail(ss))

\* The executor handleSend passes to chatWithJsonTools (part_000:544-553) on
\* top of executeJsonTool (jsonTools.js:106-197): the kind of value returned
\* for a tool name; args "bad" stands for arguments the tool cannot serve
\* (no numeric values, no dated record, no matching video, no anchor image).
executeJsonFn(name, args) ==
    IF args = "bad" THEN [kind |-> "error"]
    ELSE IF name = "generateImage" THEN [kind |-> "image"]
    ELSE IF name = "compute_stats_json" THEN [kind |-> "stats"]
    ELSE IF name = "plot_metric_vs_time" THEN [kind |-> "chart"]
    ELSE IF name = "play_video" THEN [kind |-> "card"]
    ELSE [kind |-> "error"]

\* The executor handleSend passes to chatWithCsvTools (part_000:584),
\* executeTool of services/csvTools, by its documented contract: the tabular
\* engine returns a chart payload for a visualisation tool, a plain value
\* otherwise and {error} for arguments or a tool it cannot serve.
executeTool(name, args) ==
    IF args = "bad" THEN [kind |-> "error"]
    ELSE IF name = "chart" THEN [kind |-> "chart"]
    ELSE IF name \in {"aggregate", "correlate"} THEN [kind |-> "stats"]
    ELSE [kind |-> "error"]

executeFn(f, name, args) ==
    IF f = "chatWithJsonTools" THEN executeJsonFn(name, args)
    ELSE executeTool(name, args)

\* toolResult?._chartType and toolResult?._imageType === 'generated' && data
HasChartType(result) == result.kind = "chart"
IsGeneratedImage(result) == result.kind = "image"

\* The requests the provider stub cycles through, per catalog.
JsonSampleCalls ==
    << [name |-> "plot_metric_vs_time", args |-> "ok"],
       [name |-> "compute_stats_json", args |-> "ok"],
       [name |-> "generateImage", args |-> "ok"],
       [name |-> "compute_stats_json", args |-> "bad"],
       [name |-> "play_video", args |-> "ok"] >>

\* Requests against the tabular catalog (CSV_TOOL_DECLARATIONS).
CsvSampleCalls ==
    << [name |-> "chart", args |-> "ok"],
       [name |-> "aggregate", args |-> "ok"],
       [name |-> "correlate", args |-> "bad"] >>

SampleCalls(f) == IF f = "chatWithJsonTools" THEN JsonSampleCalls ELSE CsvSampleCalls

\* The j-th request of the response to the i-th provider call; id identifies
\* the request (tool_call_id in the chat-completions backend).
ScriptCall(f, i, j) ==
    LET s == SampleCalls(f)
        c == s[((i + j - 2) % Len(s)) + 1]
    IN  [id |-> <<i, j>>, name |-> c.name, args |-> c.args]

\* The responses the provider stub may give to its i-th call: a final text,
\* or 1..MaxCalls tool-call requests with or without accompanying content.
ProviderResponses(f, i) ==
    { [ calls |-> [j \in 1..n |-> ScriptCall(f, i, j)],
        text |-> (IF n = 0 THEN "final" ELSE IF n = 1 THEN "" ELSE "partial") ]
      : n \in 0..MaxCalls }

NoResponse == [calls |-> <<>>, text |-> ""]

Ids(calls) == [k \in 1..Len(calls) |-> calls[k].id]

\* One {name, args, result} record per executed request.
Record(f, c) ==
    [id |-> c.id, name |-> c.name, args |-> c.args,
     result |-> executeFn(f, c.name, c.args)]

Records(f, calls) == [k \in 1..Len(calls) |-> Record(f, calls[k])]

ChartsOf_withCards(records) ==
    LET sel == SelectSeq(records, LAMBDA r : r.result.kind \in {"chart", "card"})
    IN  [k \in 1..Len(sel) |-> sel[k].id]

ChartsOf(records) ==
    LET sel == SelectSeq(records, LAMBDA r : HasChartType(r.result))
    IN  [k \in 1..Len(sel) |-> sel[k].id]

ImagesOf(records) ==
    LET sel == SelectSeq(records, LAMBDA r : IsGeneratedImage(r.result))
    IN  [k \in 1..Len(sel) |-> sel[k].id]

\* buildMessages (gemini.js:73-94): system prompt, history and the new user
\* message, taken as one opening item of the conversation.
messages == << [role |-> "user", ids |-> <<>>] >>

messagesWithAssistant_noToolMessages(calls) ==
    messages \o << [role |-> "assistant", ids |-> Ids(calls)] >>

\* gemini.js:199-212 and 282-293: the conversation of a follow-up call of
\* the chat-completions backend.
messagesWithAssistant(calls) ==
    messages
    \o << [role |-> "assistant", ids |-> Ids(calls)] >>
    \o [k \in 1..Len(calls) |-> [role |-> "tool", ids |-> <<calls[k].id>>]]

Ceiling(f) == IF f = "chatWithCsvTools" THEN CsvRoundCeiling ELSE JsonRoundCeiling

\* The for-loop condition, gemini.js:196,242,279,326.
RoundAllowed_offByOne(f, r) == r <= Ceiling(f)

RoundAllowed(f, r) == r < Ceiling(f)

LoopIdle ==
    /\ backend = "openai"
    /\ fn = NULL
    /\ lpc = "off"
    /\ round = 0
    /\ invocations = 0
    /\ response = NoResponse
    /\ sent = <<>>
    /\ chatHistory = <<>>
    /\ toolCalls = <<>>
    /\ charts = <<>>
    /\ generatedImages = <<>>
    /\ requested = <<>>
    /\ returned = [text |-> "", charts |-> <<>>, toolCalls |-> <<>>,
                   generatedImages |-> <<>>]

\* Entry of chatWithCsvTools / chatWithJsonTools under either backend
\* (USE_OPENAI, gemini.js:13,255,341).
LoopInit ==
    /\ backend \in Backends
    /\ fn \in LoopFns
    /\ lpc = "start"
    /\ round = 0
    /\ invocations = 0
    /\ response = NoResponse
    /\ sent = <<>>
    /\ chatHistory = <<>>
    /\ toolCalls = <<>>
    /\ charts = <<>>
    /\ generatedImages = <<>>
    /\ requested = <<>>
    /\ returned = [text |-> "", charts |-> <<>>, toolCalls |-> <<>>,
                   generatedImages |-> <<>>]

\* The first provider call: gemini.js:189-194, 239, 272-277, 322.
FirstInvocation ==
    /\ lpc = "start"
    /\ sent' = messages
    /\ invocations' = 1
    /\ lpc' = "awaiting"
    /\ UNCHANGED <<backend, fn, round, response, chatHistory, toolCalls, charts,
                   generatedImages, requested, returned>>
    /\ UNCHANGED nonLoopVars

\* The awaited provider call resolves. A follow-up call is awaited inside
\* the loop body, so its completion ends the round (round++). The Gemini
\* ChatSession appends the message sent and the reply to its history.
ProviderRespond ==
    /\ lpc = "awaiting"
    /\ \E r \in ProviderResponses(fn, invocations) :
           /\ response' = r
           /\ chatHistory' =
                  (IF backend = "gemini"
                   THEN sent \o << [role |-> "model", ids |-> Ids(r.calls)] >>
                   ELSE chatHistory)
    /\ round' = (IF invocations = 1 THEN round ELSE round + 1)
    /\ lpc' = "inspect"
    /\ UNCHANGED <<backend, fn, invocations, sent, toolCalls, charts,
                   generatedImages, requested, returned>>
    /\ UNCHANGED nonLoopVars

\* The awaited provider call rejects: the loop function throws.
ProviderFail ==
    /\ lpc = "awaiting"
    /\ lpc' = "failed"
    /\ UNCHANGED <<backend, fn, round, invocations, response, sent, chatHistory,
                   toolCalls, charts, generatedImages, requested, returned>>
    /\ UNCHANGED nonLoopVars

\* One loop body of the chat-completions backend: gemini.js:196-219 and
\* 279-300.
ExecuteRoundOpenAI ==
    /\ lpc = "inspect"
    /\ backend = "openai"
    /\ RoundAllowed(fn, round)
    /\ response.calls # <<>>
    /\ LET recs == Records(fn, response.calls)
       IN  /\ toolCalls' = toolCalls \o recs
           /\ charts' = charts \o ChartsOf(recs)
           /\ generatedImages' =
                  (IF fn = "chatWithJsonTools"
                   THEN generatedImages \o ImagesOf(recs)
                   ELSE generatedImages)
    /\ requested' = requested \o Ids(response.calls)
    /\ sent' = messagesWithAssistant(response.calls)
    /\ invocations' = invocations + 1
    /\ lpc' = "awaiting"
    /\ UNCHANGED <<backend, fn, round, response, chatHistory, returned>>
    /\ UNCHANGED nonLoopVars

\* One loop body of the contents/parts backend: gemini.js:242-251 and
\* 326-337. parts.find takes the first functionCall part of the response.
ExecuteRoundGemini ==
    /\ lpc = "inspect"
    /\ backend = "gemini"
    /\ RoundAllowed(fn, round)
    /\ response.calls # <<>>
    /\ LET funcCall == Head(response.calls)
           recs == Records(fn, <<funcCall>>)
       IN  /\ toolCalls' = toolCalls \o recs
           /\ charts' = charts \o ChartsOf(recs)
           /\ generatedImages' =
                  (IF fn = "chatWithJsonTools"
                   THEN generatedImages \o ImagesOf(recs)
                   ELSE generatedImages)
           /\ sent' = chatHistory \o << [role |-> "function", ids |-> <<funcCall.id>>] >>
    /\ requested' = requested \o Ids(response.calls)
    /\ invocations' = invocations + 1
    /\ lpc' = "awaiting"
    /\ UNCHANGED <<backend, fn, round, response, chatHistory, returned>>
    /\ UNCHANGED nonLoopVars

\* The loop is left (break, or the for condition fails) and the function
\* returns: gemini.js:198,221-222; 245,252; 281,302-303; 329,338.
LoopReturn ==
    /\ lpc = "inspect"
    /\ (~RoundAllowed(fn, round) \/ response.calls = <<>>)
    /\ returned' = [text |-> response.text, charts |-> charts,
                    toolCalls |-> toolCalls, generatedImages |-> generatedImages]
    /\ lpc' = "done"
    /\ UNCHANGED <<backend, fn, round, invocations, response, sent, chatHistory,
                   toolCalls, charts, generatedImages, requested>>
    /\ UNCHANGED nonLoopVars

LoopNext ==
    \/ FirstInvocation
    \/ ProviderRespond
    \/ ProviderFail
    \/ ExecuteRoundOpenAI
    \/ ExecuteRoundGemini
    \/ LoopReturn

(***************************************************************************)
(* Structured-record executor: executeJsonTool, jsonTools.js:66-197, and   *)
(* the generateImage branch of handleSend's executeJsonFn, part_000:544-553 *)
(***************************************************************************)

\* Not-a-number; every number of the sample records is non-negative.
NaN == -1

\* What parseFloat / parseInt(_, 10) give for the plain numbers of the samples.
NumberOf == ("10" :> 10) @@ ("20" :> 20) @@ ("30" :> 30) @@ ("60" :> 60) @@ ("5" :> 5)

\* The largest hours, minutes and seconds written in the duration texts.
MaxHours == 1
MaxMinutes == 2
MaxSeconds == 3

\* A part that a duration text leaves out.
Absent == -1

\* The duration texts tried, each with the digits its parts are written
\* with: PT<h>H<m>M<s>S with any part left out, h:mm:ss and m:ss.
DurationTexts ==
    LET Pad2(n) == IF n < 10 THEN "0" \o ToString(n) ELSE ToString(n)
        Part(n, unit) == IF n = Absent THEN "" ELSE ToString(n) \o unit
        H == 0..MaxHours
        M == 0..MaxMinutes
        S == 0..MaxSeconds
    IN  { [form |-> "iso", text |-> "PT" \o Part(h, "H") \o Part(m, "M") \o Part(s, "S"),
           h |-> h, m |-> m, s |-> s] :
              h \in H \cup {Absent}, m \in M \cup {Absent}, s \in S \cup {Absent} }
        \cup { [form |-> "colon",
                text |-> ToString(h) \o ":" \o Pad2(m) \o ":" \o Pad2(s),
                h |-> h, m |-> m, s |-> s] : h \in H, m \in M, s \in S }
        \cup { [form |-> "colon", text |-> ToString(m) \o ":" \o Pad2(s),
                h |-> Absent, m |-> m, s |-> s] : m \in M, s \in S }

\* str.match(re) for the two patterns of durationToSeconds: the duration
\* text of that form that val is, as a set of at most one element.
Match(form, val) == { d \in DurationTexts : d.form = form /\ d.text = val }

\* parseFloat reads the longest numeric prefix: the whole of a plain number,
\* the digits before the first colon of a colon text, nothing of a text
\* that starts with a letter.
parseFloat(val) ==
    IF val \in DOMAIN NumberOf THEN NumberOf[val]
    ELSE IF Match("colon", val) # {}
    THEN LET d == CHOOSE d \in Match("colon", val) : TRUE
         IN  IF d.h = Absent THEN d.m ELSE d.h
    ELSE NaN

\* parseInt(group || 0, 10) * 3600 + .. of a match, jsonTools.js:83-86, 90-93
SecondsOf(d) ==
    LET num(n) == IF n = Absent THEN 0 ELSE n
    IN  num(d.h) * 3600 + num(d.m) * 60 + num(d.s)

\* durationToSeconds, jsonTools.js:76-96
durationToSeconds(val) ==
    IF val = NULL \/ val = "" THEN NaN
    ELSE IF parseFloat(val) # NaN THEN parseFloat(val)
    ELSE IF Match("iso", val) # {}
    THEN SecondsOf(CHOOSE d \in Match("iso", val) : TRUE)
    ELSE IF Match("colon", val) # {}
    THEN SecondsOf(CHOOSE d \in Match("colon", val) : TRUE)
    ELSE NaN

\* Object.keys of a record, in insertion order.
KeyOrder == <<"video_id", "title", "view_count", "duration", "release_date", "">>

Keys(r) == SelectSeq(KeyOrder, LAMBDA k : k \in DOMAIN r)

\* r[name]: undefined for a key the record does not have.
Get(r, name) == IF name \in DOMAIN r THEN r[name] ELSE NULL

\* s.toLowerCase() for the names and selectors of the samples.
LowerOf ==
    ("View_Count" :> "view_count") @@ ("Release-Date" :> "release-date")
    @@ ("Least Viewed" :> "least viewed") @@ ("Duration" :> "duration")
    @@ ("A" :> "a") @@ ("B" :> "b") @@ ("C" :> "c")

toLowerCase(s) == IF s \in DOMAIN LowerOf THEN LowerOf[s] ELSE s

\* s.replace(/[\s_-]+/g, '') for the lower-cased names of the samples.
StrippedOf ==
    ("view_count" :> "viewcount") @@ ("release-date" :> "releasedate")
    @@ ("release_date" :> "releasedate") @@ ("video_id" :> "videoid")
    @@ ("_" :> "")

norm(s) ==
    LET l == toLowerCase(s)
    IN  IF l \in DOMAIN StrippedOf THEN StrippedOf[l] ELSE l

\* resolveField, jsonTools.js:66-73; keys.find(..) || name gives the name
\* when no key is found and when the key found is the empty string.
resolveField(rows, name) ==
    IF rows = <<>> \/ name = NULL \/ name = "" THEN name
    ELSE LET keys == Keys(rows[1])
             hits == SelectSeq(keys, LAMBDA k : norm(k) = norm(name))
         IN  IF \E i \in DOMAIN keys : keys[i] = name THEN name
             ELSE IF hits # <<>> /\ hits[1] # "" THEN hits[1]
             ELSE name

\* field.toLowerCase().includes('duration') || field === 'duration_iso'
IsDurationField(field) == toLowerCase(field) \in {"duration", "duration_iso"}

\* a ?? b ?? c
Coalesce(a, b, c) == IF a # NULL THEN a ELSE IF b # NULL THEN b ELSE c

\* Array.prototype.sort with the comparator a.key - b.key: stable, ascending.
\* The argument is a sequence of [key, item] pairs.
RECURSIVE InsertByKey(_, _)
InsertByKey(x, sorted) ==
    IF sorted = <<>> THEN <<x>>
    ELSE IF Head(sorted).key <= x.key
         THEN <<Head(sorted)>> \o InsertByKey(x, Tail(sorted))
         ELSE <<x>> \o sorted

RECURSIVE SortByKey(_)
SortByKey(pairs) ==
    IF pairs = <<>> THEN <<>>
    ELSE InsertByKey(pairs[Len(pairs)], SortByKey(SubSeq(pairs, 1, Len(pairs) - 1)))

RECURSIVE SumSeq(_)
SumSeq(s) == IF s = <<>> THEN 0 ELSE Head(s) + SumSeq(Tail(s))

\* Math.sqrt, for the perfect squares the samples give.
Sqrt(n) == CHOOSE k \in 0..n : k * k <= n /\ (k + 1) * (k + 1) > n

\* median, jsonTools.js:98-101 (1-based indices)
median(sorted) ==
    IF Len(sorted) % 2 = 0
    THEN (sorted[Len(sorted) \div 2] + sorted[(Len(sorted) \div 2) + 1]) \div 2
    ELSE sorted[(Len(sorted) \div 2) + 1]

Thrown == [kind |-> "throw", error |-> "TypeError"]

\* case 'compute_stats_json', jsonTools.js:112-133. The samples give whole
\* numbers for mean and median, which fmt leaves as they are; std is kept to
\* its whole part.
compute_stats_json(a, rows) ==
    LET field == resolveField(rows, a.field)
        Idx == 1..Len(rows)
        vals0 == [i \in Idx |-> parseFloat(Get(rows[i], field))]
        allNaN == \A i \in Idx : vals0[i] = NaN
        vals1 == IF allNaN /\ IsDurationField(field)
                 THEN [i \in Idx |->
                          durationToSeconds(Coalesce(Get(rows[i], field),
                                                     Get(rows[i], "duration"),
                                                     Get(rows[i], "duration_iso")))]
                 ELSE vals0
        vals == SelectSeq(vals1, LAMBDA v : v # NaN)
        mean == SumSeq(vals) \div Len(vals)
        keyed == SortByKey([i \in 1..Len(vals) |-> [key |-> vals[i], item |-> vals[i]]])
        sorted == [i \in 1..Len(vals) |-> keyed[i].item]
        variance ==
            SumSeq([i \in 1..Len(vals) |-> (vals[i] - mean) * (vals[i] - mean)])
                \div Len(vals)
    IN  IF allNaN /\ field = NULL THEN Thrown
        ELSE IF vals = <<>>
        THEN [kind |-> "error", error |-> "No numeric values", field |-> field,
              available |-> Keys(rows[1])]
        ELSE [kind |-> "stats", field |-> field, count |-> Len(vals),
              mean |-> mean, median |-> median(sorted), std |-> Sqrt(variance),
              min |-> sorted[1], max |-> sorted[Len(sorted)]]

\* new Date(d).getTime() for the dates of the samples, as an ordinal.
DateOf == ("2023-05-01" :> 1) @@ ("2023-09-09" :> 2) @@ ("2024-01-02" :> 3)

\* case 'plot_metric_vs_time', jsonTools.js:135-163; the label of a point is
\* a rendering of its date and is left out.
plot_metric_vs_time(a, rows) ==
    LET metricField == resolveField(rows, a.metric_field)
        dateField == IF a.date_field \notin {NULL, ""}
                     THEN resolveField(rows, a.date_field)
                     ELSE "release_date"
        metricVal(v) ==
            LET m == parseFloat(Get(v, metricField))
            IN  IF m = NaN /\ IsDurationField(metricField)
                THEN durationToSeconds(Coalesce(Get(v, metricField),
                                                Get(v, "duration"),
                                                Get(v, "duration_iso")))
                ELSE m
        kept == SelectSeq(rows, LAMBDA v : Get(v, dateField) # NULL
                                           /\ metricVal(v) # NaN)
        keyed == SortByKey([i \in 1..Len(kept) |->
                     [key |-> DateOf[Get(kept[i], dateField)],
                      item |-> [date |-> Get(kept[i], dateField),
                                value |-> metricVal(kept[i]),
                                title |-> (IF Get(kept[i], "title") = NULL
                                           THEN "" ELSE kept[i].title)]]])
        data == [i \in 1..Len(keyed) |-> keyed[i].item]
    IN  IF metricField = NULL THEN Thrown
        ELSE IF data = <<>>
        THEN [kind |-> "error", error |-> "Could not plot",
              metricField |-> metricField, dateField |-> dateField,
              available |-> Keys(rows[1])]
        ELSE [kind |-> "chart", data |-> data, metricField |-> metricField,
              dateField |-> dateField]

\* The position a selector names: /^(first|1st|1)$/, /^(second|2nd|2)$/,
\* /^(third|3rd|3)$/ and /^(\d+)(st|nd|rd|th)?$/ with parseInt.
OrdinalOf ==
    ("first" :> 1) @@ ("1st" :> 1) @@ ("1" :> 1) @@ ("second" :> 2)
    @@ ("2nd" :> 2) @@ ("2" :> 2) @@ ("third" :> 3) @@ ("3rd" :> 3)
    @@ ("3" :> 3) @@ ("7" :> 7)

\* The words of the sample titles, lower-cased; a selector of the samples is
\* a substring of a title exactly when it is empty or one of its words.
TitleWords ==
    ("Asbestos removal" :> {"asbestos", "removal"})
    @@ ("Cat video" :> {"cat", "video"})
    @@ ("A" :> {"a"}) @@ ("B" :> {"b"}) @@ ("C" :> {"c"})
    @@ ("" :> {})

\* (v.title || '').toLowerCase().includes(sel)
TitleIncludes(v, sel) ==
    sel = "" \/ sel \in TitleWords[IF Get(v, "title") = NULL THEN "" ELSE v.title]

\* parseInt(v.view_count, 10) || 0
ViewCount(v) ==
    IF parseFloat(Get(v, "view_count")) = NaN THEN 0
    ELSE parseFloat(Get(v, "view_count"))

\* case 'play_video', jsonTools.js:165-192; index 0 stands for no video
\* found. The selectors of the samples carry no surrounding white space.
play_video(a, rows) ==
    LET sel == toLowerCase(IF a.video_selector = NULL THEN "" ELSE a.video_selector)
        byViews(sign) ==
            SortByKey([i \in 1..Len(rows) |->
                          [key |-> sign * ViewCount(rows[i]), item |-> i]])[1].item
        titled == { i \in 1..Len(rows) : TitleIncludes(rows[i], sel) }
        index ==
            IF sel \in {"most viewed", "most viewed video"} THEN byViews(-1)
            ELSE IF sel \in {"least viewed", "least viewed video"} THEN byViews(1)
            ELSE IF sel \in DOMAIN OrdinalOf
                 THEN (IF OrdinalOf[sel] \in 1..Len(rows) THEN OrdinalOf[sel] ELSE 0)
            ELSE IF titled # {} THEN CHOOSE i \in titled : \A j \in titled : i <= j
            ELSE 0
    IN  IF index = 0
        THEN [kind |-> "error", error |-> "Video not found",
              selector |-> a.video_selector]
        ELSE [kind |-> "card",
              title |-> (IF Get(rows[index], "title") \in {NULL, ""}
                         THEN "Untitled" ELSE rows[index].title),
              url |-> Get(rows[index], "video_id")]

\* An executor without the case 'play_video'.
executeJsonTool_noPlayVideo(name, a, vids) ==
    IF ~vids.isArray \/ vids.rows = <<>>
    THEN [kind |-> "error", error |-> "No channel JSON data loaded"]
    ELSE IF name = "compute_stats_json" THEN compute_stats_json(a, vids.rows)
    ELSE IF name = "plot_metric_vs_time" THEN plot_metric_vs_time(a, vids.rows)
    ELSE [kind |-> "error", error |-> "Unknown tool", tool |-> name]

\* executeJsonTool, jsonTools.js:106-197. The third argument is given as
\* [isArray, rows]: sessionJsonData is null or an array of records.
executeJsonTool(name, a, vids) ==
    IF ~vids.isArray \/ vids.rows = <<>>
    THEN [kind |-> "error", error |-> "No channel JSON data loaded"]
    ELSE IF name = "compute_stats_json" THEN compute_stats_json(a, vids.rows)
    ELSE IF name = "plot_metric_vs_time" THEN plot_metric_vs_time(a, vids.rows)
    ELSE IF name = "play_video" THEN play_video(a, vids.rows)
    ELSE [kind |-> "error", error |-> "Unknown tool", tool |-> name]

\* Array.prototype.sort applied to the session's array itself: the records
\* in ascending order of view count.
videosAfter_sortedInPlace(name, a, rows) ==
    IF name = "play_video"
    THEN LET keyed == SortByKey([i \in 1..Len(rows) |->
                                    [key |-> ViewCount(rows[i]), item |-> rows[i]]])
         IN  [i \in 1..Len(rows) |-> keyed[i].item]
    ELSE rows

\* The session's array after a call of executeJsonTool. The two sorts of
\* play_video act on the copy [...videos] (jsonTools.js:169, 171), the sort
\* of plot_metric_vs_time on the array that map and filter built
\* (jsonTools.js:138-154), the statistics on vals (jsonTools.js:114-122);
\* no record is assigned to.
videosAfter(name, a, rows) == rows

\* Sample channel files: no array, no record, and lists of records. VideoC
\* has no title, no date and no numeric value; RecA, RecB and RecC are titled
\* A, B and C with view counts 10, 30 and 20; Keyed has a key that is the
\* empty string.
VideoSamples ==
    LET VideoA ==
            [video_id |-> "a1", title |-> "Asbestos removal", view_count |-> "30",
             duration |-> "PT1M", release_date |-> "2024-01-02"]
        VideoB ==
            [video_id |-> "b2", title |-> "Cat video", view_count |-> "10",
             duration |-> "PT2M", release_date |-> "2023-05-01"]
        VideoC == [video_id |-> "c3", view_count |-> "n/a", duration |-> ""]
        RecA ==
            [video_id |-> "ra", title |-> "A", view_count |-> "10",
             duration |-> "60", release_date |-> "2024-01-02"]
        RecB ==
            [video_id |-> "rb", title |-> "B", view_count |-> "30",
             duration |-> "PT2M", release_date |-> "2023-05-01"]
        RecC ==
            [video_id |-> "rc", title |-> "C", view_count |-> "20",
             duration |-> "PT1M", release_date |-> "2023-09-09"]
        Keyed == ("video_id" :> "k1") @@ ("title" :> "Cat video") @@ ("" :> "5")
    IN  { [isArray |-> FALSE, rows |-> <<>>],
          [isArray |-> TRUE, rows |-> <<>>],
          [isArray |-> TRUE, rows |-> <<VideoA>>],
          [isArray |-> TRUE, rows |-> <<VideoA, VideoB>>],
          [isArray |-> TRUE, rows |-> <<VideoC>>],
          [isArray |-> TRUE, rows |-> <<VideoC, VideoA, VideoB>>],
          [isArray |-> TRUE, rows |-> <<RecA, RecB, RecC>>],
          [isArray |-> TRUE, rows |-> <<Keyed>>] }

ToolNames ==
    {"compute_stats_json", "plot_metric_vs_time", "play_video", "generateImage",
     "unknown_tool"}

\* The argument mapping {}: every key is missing.
NoArgs ==
    [field |-> NULL, metric_field |-> NULL, date_field |-> NULL,
     video_selector |-> NULL, prompt |-> NULL]

\* The argument mappings a provider may send with a tool call.
ArgSamples ==
    LET FieldNames ==
            {"view_count", "View_Count", "viewcount", "duration", "title",
             "nope", "_", ""}
        DateFieldNames == {NULL, "release_date", "Release-Date", "nope"}
        Selectors ==
            {"first", "2", "3rd", "third", "7", "most viewed", "Least Viewed",
             "asbestos", "zzz", ""}
    IN  {NoArgs}
        \cup { [NoArgs EXCEPT !.field = f] : f \in FieldNames }
        \cup { [NoArgs EXCEPT !.metric_field = f, !.date_field = d] :
                 f \in FieldNames, d \in DateFieldNames }
        \cup { [NoArgs EXCEPT !.video_selector = x] : x \in Selectors }
        \cup { [NoArgs EXCEPT !.prompt = "watercolor"] }

NoOutcome == [kind |-> "none"]

ExecIdle ==
    /\ toolName = NULL
    /\ toolArgs = NoArgs
    /\ videos = [isArray |-> FALSE, rows |-> <<>>]
    /\ anchor = FALSE
    /\ imageApi = "error"
    /\ epc = "off"
    /\ outcome = NoOutcome

\* A tool call arrives at the executor of a structured-record turn.
ExecInit ==
    /\ toolName \in ToolNames
    /\ toolArgs \in ArgSamples
    /\ videos \in VideoSamples
    /\ anchor \in BOOLEAN
    /\ imageApi \in {"data", "error"}
    /\ epc = "call"
    /\ outcome = NoOutcome

\* executeJsonFn, part_000:552: every tool but generateImage goes to
\* executeJsonTool with the session's records.
ExecuteJsonTool ==
    /\ epc = "call"
    /\ toolName # "generateImage"
    /\ outcome' = executeJsonTool(toolName, toolArgs, videos)
    /\ videos' = [videos EXCEPT !.rows = videosAfter(toolName, toolArgs, videos.rows)]
    /\ epc' = (IF outcome'.kind = "throw" THEN "thrown" ELSE "returned")
    /\ UNCHANGED <<toolName, toolArgs, anchor, imageApi>>
    /\ UNCHANGED <<chatVars, loopVars, turnVars, secondVars, parseVars, restVars>>

\* executeJsonFn, part_000:545-551, with generateImage of the image service
\* (jsonTools.js:214-277), which resolves to {data, mimeType} or {error}.
ExecuteGenerateImage ==
    /\ epc = "call"
    /\ toolName = "generateImage"
    /\ outcome' =
           (IF ~anchor THEN [kind |-> "error", error |-> "No anchor image provided"]
            ELSE IF imageApi = "error"
            THEN [kind |-> "error", error |-> "Image generation failed"]
            ELSE [kind |-> "image", data |-> "base64", mimeType |-> "image/png"])
    /\ epc' = "returned"
    /\ UNCHANGED <<toolName, toolArgs, videos, anchor, imageApi>>
    /\ UNCHANGED <<chatVars, loopVars, turnVars, secondVars, parseVars, restVars>>

ExecNext ==
    \/ ExecuteJsonTool
    \/ ExecuteGenerateImage

(***************************************************************************)
(* A turn of the conversation: handleSend, part_000:490-657, with the      *)
(* message list, the session store and the streamChat generators           *)
(* (gemini.js:96-175). A text is a sequence of tokens; concatenation of    *)
(* texts is \o.                                                            *)
(***************************************************************************)

\* Turns followed in one conversation.
MaxTurns == 2

userContent_withPrefix(text, imgs, capturedJson) ==
    <<"[CSV File]", "base64:payload">> \o text

\* userContent, part_000:492
userContent(text, imgs, capturedJson) ==
    IF text # <<>> THEN text
    ELSE IF imgs THEN <<"(Image)">>
    ELSE IF capturedJson # NULL THEN <<"(JSON attached)">>
    ELSE <<"(CSV attached)">>

\* defaultPrompt, part_000:493-495
defaultPrompt(hasInterviewOnly, imgs, capturedJson) ==
    IF hasInterviewOnly THEN <<"Start the interview.">>
    ELSE IF imgs THEN <<"What do you see in this image?">>
    ELSE IF capturedJson # NULL THEN <<"Please analyze this YouTube channel data.">>
    ELSE <<"Please analyze this CSV data.">>

\* The text of csvPrefix (part_000:429-455) for each of its forms.
csvPrefixText(form) ==
    CASE form = "base64" -> <<"[CSV File]", "summary", "base64:payload">>
      [] form = "plain" -> <<"[CSV File]", "summary">>
      [] form = "summary" -> <<"[CSV columns]", "summary">>
      [] OTHER -> <<>>

\* Every token an attachment or interview prefix is made of.
PrefixTokens ==
    {"[CSV File]", "[CSV columns]", "summary", "base64:payload",
     "[YouTube Channel JSON]", "[INTERVIEW MODE]"}

\* promptForGemini, part_000:496, for a user without profile name
\* (userContext = '').
promptForGemini(t) ==
    (IF t.prompt.interviewPrefix THEN <<"[INTERVIEW MODE]">> ELSE <<>>)
    \o csvPrefixText(t.prompt.csvPrefix)
    \o (IF t.prompt.jsonPrefix THEN <<"[YouTube Channel JSON]">> ELSE <<>>)
    \o (IF t.text # <<>> THEN t.text
        ELSE defaultPrompt(t.prompt.interviewPrefix /\ ~t.images
                               /\ t.capturedCsv = NULL /\ t.capturedJson = NULL,
                           t.images, t.capturedJson))

\* userMsg, part_000:498-506
userMsg(t) ==
    [role |-> "user",
     content |-> userContent(t.text, t.images, t.capturedJson),
     images |-> t.images,
     csvName |-> t.capturedCsv,
     jsonName |-> t.capturedJson]

NoParts == [set |-> FALSE, parts |-> <<>>]

\* The assistant message as created, part_000:527-530.
AssistantPlaceholder ==
    [role |-> "model", content |-> <<>>, parts |-> NoParts, grounding |-> FALSE,
     charts |-> <<>>, toolCalls |-> <<>>, generatedImages |-> <<>>]

\* texts.join('\n')
RECURSIVE JoinLines(_)
JoinLines(texts) ==
    IF texts = <<>> THEN <<>>
    ELSE IF Len(texts) = 1 THEN texts[1]
    ELSE texts[1] \o <<"\n">> \o JoinLines(Tail(texts))

\* parts.filter((p) => p.type === 'text').map((p) => p.text)
TextsOf(parts) ==
    LET sel == SelectSeq(parts, LAMBDA p : p.type = "text")
    IN  [k \in 1..Len(sel) |-> sel[k].text]

\* messageText, part_000:55-58
messageText(m) ==
    IF "parts" \in DOMAIN m /\ m.parts.set
    THEN JoinLines(TextsOf(m.parts.parts))
    ELSE m.content

\* history, part_000:522-524
History(msgs) ==
    LET sel == SelectSeq(msgs, LAMBDA m : m.role \in {"user", "model"})
    IN  [k \in 1..Len(sel) |->
            [role |-> sel[k].role,
             content |-> (IF sel[k].content # <<>> THEN sel[k].content
                          ELSE messageText(sel[k]))]]

savedContent_fullContentOnly(sp, fc) == fc

savedContent_partsOnly(sp, fc) == JoinLines(TextsOf(sp.parts))

\* savedContent, part_000:639-641
savedContent(sp, fc) ==
    IF sp.set THEN JoinLines(TextsOf(sp.parts)) ELSE fc

\* errText, part_000:625
errText == <<"Error: ", "provider failure">>

\* The responses the provider stub may stream: their content parts and
\* whether they carry groundingMetadata. A part is given by its position in
\* the response, the field it carries and, for a text part, its text. The
\* stub answers with nothing, with plain text, with a code run and text around
\* it, with a code run without text, or with a repeated text, an empty text
\* and a part of another kind.
ProviderStreams ==
    LET Part(id, field, text) == [id |-> id, field |-> field, text |-> text]
        PartsText == << Part(1, "text", <<"a">>), Part(2, "text", <<"b">>) >>
        PartsCodeRun ==
            << Part(1, "text", <<"a">>), Part(2, "executableCode", <<>>),
               Part(3, "codeExecutionResult", <<>>), Part(4, "inlineData", <<>>),
               Part(5, "text", <<"b">>) >>
        PartsCodeOnly ==
            << Part(1, "executableCode", <<>>), Part(2, "codeExecutionResult", <<>>) >>
        PartsRepeated ==
            << Part(1, "text", <<"b">>), Part(2, "functionCall", <<>>),
               Part(3, "text", <<>>), Part(4, "text", <<"b">>),
               Part(5, "inlineData", <<>>) >>
    IN  { [parts |-> ps, grounding |-> FALSE] :
              ps \in {<<>>, PartsText, PartsCodeRun, PartsCodeOnly, PartsRepeated} }
        \cup { [parts |-> ps, grounding |-> TRUE] : ps \in {PartsText, PartsCodeRun} }

\* hasCodeExecution, gemini.js:157-159 (every inlineData of the samples is an
\* image).
hasCodeExecution(allParts) ==
    \E i \in DOMAIN allParts :
        allParts[i].field \in {"executableCode", "codeExecutionResult", "inlineData"}

\* The type a part is mapped to by gemini.js:162-168, "null" for none.
PartType(p) ==
    IF p.field = "text" /\ p.text # <<>> THEN "text"
    ELSE IF p.field = "executableCode" THEN "code"
    ELSE IF p.field = "codeExecutionResult" THEN "result"
    ELSE IF p.field = "inlineData" THEN "image"
    ELSE NULL

toStructuredParts_reversed(allParts) ==
    LET kept == SelectSeq(allParts, LAMBDA p : PartType(p) # NULL)
    IN  [k \in 1..Len(kept) |->
            [id |-> kept[Len(kept) + 1 - k].id,
             type |-> PartType(kept[Len(kept) + 1 - k]),
             text |-> kept[Len(kept) + 1 - k].text]]

\* structuredParts, gemini.js:161-170: allParts.map(...).filter(Boolean)
toStructuredParts(allParts) ==
    LET kept == SelectSeq(allParts, LAMBDA p : PartType(p) # NULL)
    IN  [k \in 1..Len(kept) |->
            [id |-> kept[k].id, type |-> PartType(kept[k]), text |-> kept[k].text]]

\* The text chunks of a stream, one arrival per text part: gemini.js:115-120
\* and 150-155.
TextDeliveries(allParts) ==
    LET sel == SelectSeq(allParts, LAMBDA p : p.field = "text" /\ p.text # <<>>)
    IN  [k \in 1..Len(sel) |->
            << [type |-> "text", id |-> sel[k].id, text |-> sel[k].text] >>]

\* streamChatOpenAI, gemini.js:96-122: text chunks only. A generator is
\* given by the response it reads, the arrivals it has still to yield and
\* what it yields once the stream has ended, without further waiting.
streamChatOpenAI(resp) ==
    [response |-> resp, deliveries |-> TextDeliveries(resp.parts), final |-> <<>>]

\* streamChatGemini, gemini.js:125-175
streamChatGemini(resp) ==
    [response |-> resp,
     deliveries |-> TextDeliveries(resp.parts),
     final |->
        (IF hasCodeExecution(resp.parts)
         THEN << [type |-> "fullResponse", parts |-> toStructuredParts(resp.parts)] >>
         ELSE <<>>)
        \o (IF resp.grounding THEN << [type |-> "grounding"] >> ELSE <<>>)]

streamChat(b, resp) ==
    IF b = "openai" THEN streamChatOpenAI(resp) ELSE streamChatGemini(resp)

NoStream ==
    [response |-> [parts |-> <<>>, grounding |-> FALSE],
     deliveries |-> <<>>, final |-> <<>>]

\* StructuredParts, part_000:62-114: the elements rendered, in order.
Rendered(parts) ==
    LET shown == SelectSeq(parts, LAMBDA p : p.type \in {"text", "code", "result", "image"})
    IN  [k \in 1..Len(shown) |-> shown[k].id]

ApplyChunk_replacing(st, c) ==
    IF c.type = "text"
    THEN [st EXCEPT !.fullContent = c.text, !.msg.content = c.text,
                    !.applied = Append(@, c)]
    ELSE st

\* The body of the for-await loop for one chunk, part_000:607-621. st holds
\* the locals and the assistant message.
ApplyChunk(st, c) ==
    IF c.type = "text"
    THEN [st EXCEPT !.fullContent = @ \o c.text,
                    !.msg.content = st.fullContent \o c.text,
                    !.applied = Append(@, c)]
    ELSE IF c.type = "fullResponse"
    THEN [st EXCEPT !.structuredParts = [set |-> TRUE, parts |-> c.parts],
                    !.msg.content = <<>>,
                    !.msg.parts = [set |-> TRUE, parts |-> c.parts],
                    !.applied = Append(@, c)]
    ELSE IF c.type = "grounding"
    THEN [st EXCEPT !.groundingData = TRUE, !.applied = Append(@, c)]
    ELSE st

RECURSIVE ApplyChunks(_, _)
ApplyChunks(st, chunks) ==
    IF chunks = <<>> THEN st
    ELSE ApplyChunks(ApplyChunk(st, Head(chunks)), Tail(chunks))

\* What chatWithCsvTools / chatWithJsonTools may resolve to: the value
\* returned without a tool round, or after one round on a response of the
\* provider stub. Without an attached image generateImage has no anchor and
\* yields no image.
ToolReturns(f, imgs) ==
    LET oneRound ==
            { LET recs == Records(f, r.calls)
              IN  [text |-> "final", charts |-> ChartsOf(recs),
                   toolCalls |-> recs,
                   generatedImages |-> (IF f = "chatWithJsonTools"
                                        THEN ImagesOf(recs) ELSE <<>>)]
              : r \in UNION { ProviderResponses(f, i) : i \in 1..(MaxCalls + 1) } }
    IN  { r \in oneRound : imgs \/ r.generatedImages = <<>> }

\* The text of a tool-loop answer.
AnswerText(text) == IF text = "" THEN <<>> ELSE <<text>>

\* The chat states a conversation is followed from: a session is open and
\* idle, with nothing attached, a CSV dropped or loaded earlier, a channel
\* file dropped or loaded earlier, or an interview under way.
AttachmentSamples ==
    { [csv |-> NULL, rows |-> NULL, json |-> NULL, data |-> NULL,
       images |-> FALSE, interview |-> FALSE],
      [csv |-> NULL, rows |-> NULL, json |-> NULL, data |-> NULL,
       images |-> TRUE, interview |-> FALSE],
      [csv |-> "data.csv", rows |-> "data.csv", json |-> NULL, data |-> NULL,
       images |-> FALSE, interview |-> FALSE],
      [csv |-> NULL, rows |-> "data.csv", json |-> NULL, data |-> NULL,
       images |-> FALSE, interview |-> FALSE],
      [csv |-> NULL, rows |-> NULL, json |-> "channel.json", data |-> "videos",
       images |-> FALSE, interview |-> FALSE],
      [csv |-> NULL, rows |-> NULL, json |-> NULL, data |-> "videos",
       images |-> TRUE, interview |-> FALSE],
      [csv |-> NULL, rows |-> NULL, json |-> NULL, data |-> "videos",
       images |-> FALSE, interview |-> TRUE] }

\* The texts typed in a followed conversation: none, one asking for Python
\* and one for neither code nor Python.
TurnTexts == { <<>>, <<"show", "histogram">>, <<"average", "views">> }

TurnChatInit ==
    \E a \in AttachmentSamples :
        /\ interviewContext = a.interview
        /\ activeSessionId = (IF a.interview THEN "s2" ELSE "s1")
        /\ sessions = (IF a.interview THEN {"s1", "s2"} ELSE {"s1"})
        /\ input = <<>>
        /\ images = a.images
        /\ csvContext = a.csv
        /\ sessionCsvRows = a.rows
        /\ sessionCsvHeaders = a.rows
        /\ csvDataSummary = a.rows
        /\ sessionSlimCsv = a.rows
        /\ jsonContext = a.json
        /\ sessionJsonData = a.data
        /\ streaming = FALSE
        /\ initPending = FALSE
        /\ abortRef = FALSE
        /\ tpc = "idle"
        /\ turn = NoTurn
        /\ dispatched = NoDispatch

TurnIdle ==
    /\ chatMessages = <<>>
    /\ store = <<>>
    /\ history = <<>>
    /\ stream = NoStream
    /\ fullContent = <<>>
    /\ structuredParts = NoParts
    /\ groundingData = FALSE
    /\ toolCharts = <<>>
    /\ turnToolCalls = <<>>
    /\ applied = <<>>
    /\ abortObserved = FALSE
    /\ caught = FALSE
    /\ turns = 0

\* The user types a message: onChange of the input, part_000:1027-1036.
TurnType ==
    /\ tpc = "idle"
    /\ ~streaming
    /\ turns < MaxTurns
    /\ \E text \in TurnTexts : input' = text
    /\ UNCHANGED <<interviewContext, activeSessionId, sessions, images,
                   csvContext, sessionCsvRows, sessionCsvHeaders, csvDataSummary,
                   sessionSlimCsv, jsonContext, sessionJsonData, streaming,
                   initPending, abortRef, tpc, turn, dispatched>>
    /\ UNCHANGED <<loopVars, execVars, turnVars, secondVars, parseVars, restVars>>

\* handleSend in an open session up to the saveMessage call for the user
\* message, part_000:384-517. history is built at part_000:522 from the
\* message list of the render the call was made in.
TurnSend ==
    /\ tpc = "idle"
    /\ CanSend
    /\ activeSessionId # "new"
    /\ turns < MaxTurns
    /\ turn' = RouteOf(input, images, csvContext, jsonContext, sessionCsvRows,
                       sessionJsonData, csvDataSummary, interviewContext)
    /\ dispatched' = NoDispatch
    /\ BeginTurn
    /\ chatMessages' = Append(chatMessages, userMsg(turn'))
    /\ store' = Append(store, [role |-> "user", content |-> userMsg(turn').content,
                               images |-> images])
    /\ history' = History(chatMessages)
    /\ turns' = turns + 1
    /\ UNCHANGED <<interviewContext, activeSessionId, sessions, sessionCsvRows,
                   sessionCsvHeaders, csvDataSummary, sessionSlimCsv,
                   sessionJsonData, initPending, abortRef>>
    /\ UNCHANGED <<stream, fullContent, structuredParts, groundingData,
                   toolCharts, turnToolCalls, applied, abortObserved,
                   caught>>
    /\ UNCHANGED <<loopVars, execVars, secondVars, parseVars, restVars>>

\* saveMessage for the user message resolved, part_000:519-540: the
\* assistant message is created empty, the abort flag reset, the locals
\* initialised and the service of the selected mode called. For streamChat
\* the provider stub fixes the response it will stream.
TurnUserSaved ==
    /\ tpc = "saveUser"
    /\ chatMessages' = Append(chatMessages, AssistantPlaceholder)
    /\ abortRef' = FALSE
    /\ fullContent' = <<>>
    /\ structuredParts' = NoParts
    /\ groundingData' = FALSE
    /\ toolCharts' = <<>>
    /\ turnToolCalls' = <<>>
    /\ applied' = <<>>
    /\ abortObserved' = FALSE
    /\ caught' = FALSE
    /\ dispatched' = Dispatch(turn)
    /\ IF Dispatch(turn).call = "streamChat"
       THEN \E resp \in ProviderStreams : stream' = streamChat(backend, resp)
       ELSE stream' = NoStream
    /\ tpc' = "provider"
    /\ UNCHANGED <<interviewContext, activeSessionId, sessions, input, images,
                   csvContext, sessionCsvRows, sessionCsvHeaders, csvDataSummary,
                   sessionSlimCsv, jsonContext, sessionJsonData, streaming,
                   initPending, turn>>
    /\ UNCHANGED <<store, history, turns>>
    /\ UNCHANGED <<loopVars, execVars, secondVars, parseVars, restVars>>

\* The locals of the running handleSend and its assistant message.
Locals ==
    [fullContent |-> fullContent, structuredParts |-> structuredParts,
     groundingData |-> groundingData, msg |-> chatMessages[Len(chatMessages)],
     applied |-> applied]

\* part_000:632-649: grounding is attached, savedContent computed and
\* saveMessage called for the assistant message.
Settle(st, chartsRet, callsRet) ==
    /\ fullContent' = st.fullContent
    /\ structuredParts' = st.structuredParts
    /\ groundingData' = st.groundingData
    /\ applied' = st.applied
    /\ toolCharts' = chartsRet
    /\ turnToolCalls' = callsRet
    /\ chatMessages' = [chatMessages EXCEPT ![Len(chatMessages)] =
                       (IF st.groundingData
                        THEN [st.msg EXCEPT !.grounding = TRUE] ELSE st.msg)]
    /\ store' = Append(store,
                       [role |-> "model",
                        content |-> savedContent(st.structuredParts, st.fullContent),
                        images |-> FALSE,
                        charts |-> chartsRet,
                        toolCalls |-> callsRet])
    /\ tpc' = "saveModel"

Caught_keepsPartial(st) == st

\* part_000:624-630
Caught(st) == [st EXCEPT !.msg.content = errText, !.fullContent = errText]

TurnFrame ==
    /\ UNCHANGED <<interviewContext, activeSessionId, sessions, input, images,
                   csvContext, sessionCsvRows, sessionCsvHeaders, csvDataSummary,
                   sessionSlimCsv, jsonContext, sessionJsonData, streaming,
                   initPending, abortRef, turn, dispatched>>
    /\ UNCHANGED <<history, turns>>
    /\ UNCHANGED <<loopVars, execVars, secondVars, parseVars, restVars>>

\* The next chunks arrive from the network, part_000:605-622. The flag is
\* tested for each chunk; handleStop cannot run between the chunks of one
\* arrival. On a break the generator is closed and handleSend goes on to
\* part_000:632.
StreamDeliver ==
    /\ tpc = "provider"
    /\ dispatched.call = "streamChat"
    /\ stream.deliveries # <<>>
    /\ IF abortRef
       THEN /\ abortObserved' = TRUE
            /\ stream' = stream
            /\ Settle(Locals, <<>>, <<>>)
       ELSE /\ LET st == ApplyChunks(Locals, Head(stream.deliveries))
               IN  /\ fullContent' = st.fullContent
                   /\ structuredParts' = st.structuredParts
                   /\ groundingData' = st.groundingData
                   /\ applied' = st.applied
                   /\ chatMessages' = [chatMessages EXCEPT ![Len(chatMessages)] = st.msg]
            /\ stream' = [stream EXCEPT !.deliveries = Tail(@)]
            /\ UNCHANGED <<abortObserved, store, toolCharts, turnToolCalls, tpc>>
    /\ UNCHANGED caught
    /\ TurnFrame

\* The stream has ended: the generator yields what follows the aggregated
\* response (gemini.js:156-174) and returns; handleSend goes on to
\* part_000:632.
StreamFinish ==
    /\ tpc = "provider"
    /\ dispatched.call = "streamChat"
    /\ stream.deliveries = <<>>
    /\ IF abortRef /\ stream.final # <<>>
       THEN /\ abortObserved' = TRUE
            /\ stream' = stream
            /\ Settle(Locals, <<>>, <<>>)
       ELSE /\ abortObserved' = abortObserved
            /\ stream' = [stream EXCEPT !.final = <<>>]
            /\ Settle(ApplyChunks(Locals, stream.final), <<>>, <<>>)
    /\ UNCHANGED caught
    /\ TurnFrame

\* The provider call of streamChat fails, before or between arrivals.
StreamFail ==
    /\ tpc = "provider"
    /\ dispatched.call = "streamChat"
    /\ Settle(Caught(Locals), <<>>, <<>>)
    /\ caught' = TRUE
    /\ UNCHANGED <<stream, abortObserved>>
    /\ TurnFrame

\* chatWithJsonTools / chatWithCsvTools resolved, part_000:554-602.
ToolsResolved ==
    /\ tpc = "provider"
    /\ dispatched.call \in LoopFns
    /\ \E r \in ToolReturns(dispatched.call, turn.images) :
           Settle([Locals EXCEPT
                       !.fullContent = AnswerText(r.text),
                       !.msg.content = AnswerText(r.text),
                       !.msg.charts = r.charts,
                       !.msg.toolCalls = r.toolCalls,
                       !.msg.generatedImages = r.generatedImages],
                  r.charts, r.toolCalls)
    /\ UNCHANGED <<stream, abortObserved, caught>>
    /\ TurnFrame

\* chatWithJsonTools / chatWithCsvTools rejected.
ToolsRejected ==
    /\ tpc = "provider"
    /\ dispatched.call \in LoopFns
    /\ Settle(Caught(Locals), <<>>, <<>>)
    /\ caught' = TRUE
    /\ UNCHANGED <<stream, abortObserved>>
    /\ TurnFrame

\* saveMessage for the assistant message resolved, part_000:651-656;
\* handleSend returns and its locals are gone.
ModelSaved ==
    /\ tpc = "saveModel"
    /\ streaming' = FALSE
    /\ tpc' = "idle"
    /\ turn' = NoTurn
    /\ dispatched' = NoDispatch
    /\ UNCHANGED <<interviewContext, activeSessionId, sessions, input, images,
                   csvContext, sessionCsvRows, sessionCsvHeaders, csvDataSummary,
                   sessionSlimCsv, jsonContext, sessionJsonData, initPending,
                   abortRef>>
    /\ stream' = NoStream
    /\ fullContent' = <<>>
    /\ structuredParts' = NoParts
    /\ groundingData' = FALSE
    /\ toolCharts' = <<>>
    /\ turnToolCalls' = <<>>
    /\ applied' = <<>>
    /\ abortObserved' = FALSE
    /\ caught' = FALSE
    /\ UNCHANGED <<chatMessages, store, history, turns>>
    /\ UNCHANGED <<loopVars, execVars, secondVars, parseVars, restVars>>

TurnNext ==
    \/ TurnType
    \/ TurnSend
    \/ TurnUserSaved
    \/ HandleStop
    \/ StreamDeliver
    \/ StreamFinish
    \/ StreamFail
    \/ ToolsResolved
    \/ ToolsRejected
    \/ ModelSaved

(***************************************************************************)
(* A second call of handleSend (a second Enter or click on Send) running   *)
(* beside the first, part_000:384-657. Both calls read and write the same  *)
(* component state; only the positions of the calls are kept apart.        *)
(***************************************************************************)

\* The ids createSession may return to the second call.
SecondSessionIds == {"s3"}

\* part_000:498-514 in the second call.
SecondBeginTurn ==
    /\ input' = <<>>
    /\ images' = FALSE
    /\ csvContext' = NULL
    /\ jsonContext' = NULL
    /\ streaming' = TRUE
    /\ tpc2' = "saveUser"

\* The second call up to its first await, part_000:384-398. Its guard reads
\* the state of the render it was made in.
SecondSend ==
    /\ tpc2 = "idle"
    /\ tpc # "idle"
    /\ CanSend
    /\ IF activeSessionId = "new"
       THEN /\ SecondSessionIds \ sessions # {}
            /\ tpc2' = "createSession"
            /\ UNCHANGED <<input, images, csvContext, jsonContext, streaming>>
       ELSE SecondBeginTurn
    /\ UNCHANGED <<interviewContext, activeSessionId, sessions, sessionCsvRows,
                   sessionCsvHeaders, csvDataSummary, sessionSlimCsv,
                   sessionJsonData, initPending, abortRef, tpc, turn, dispatched>>
    /\ UNCHANGED <<loopVars, execVars, turnVars, parseVars, restVars>>

\* part_000:391-398 and 498-514 in the second call: its createSession
\* resolved.
SecondSessionCreated ==
    /\ tpc2 = "createSession"
    /\ \E id \in SecondSessionIds \ sessions :
           /\ activeSessionId' = id
           /\ sessions' = sessions \cup {id}
    /\ SecondBeginTurn
    /\ UNCHANGED <<interviewContext, sessionCsvRows, sessionCsvHeaders,
                   csvDataSummary, sessionSlimCsv, sessionJsonData, initPending,
                   abortRef, tpc, turn, dispatched>>
    /\ UNCHANGED <<loopVars, execVars, turnVars, parseVars, restVars>>

\* part_000:517-623 in the second call.
SecondUserSaved ==
    /\ tpc2 = "saveUser"
    /\ abortRef' = FALSE
    /\ tpc2' = "provider"
    /\ UNCHANGED <<interviewContext, activeSessionId, sessions, input, images,
                   csvContext, sessionCsvRows, sessionCsvHeaders, csvDataSummary,
                   sessionSlimCsv, jsonContext, sessionJsonData, streaming,
                   initPending, tpc, turn, dispatched>>
    /\ UNCHANGED <<loopVars, execVars, turnVars, parseVars, restVars>>

\* part_000:632-656 in the second call.
SecondTurnEnd ==
    /\ tpc2 = "provider"
    /\ streaming' = FALSE
    /\ tpc2' = "idle"
    /\ UNCHANGED <<interviewContext, activeSessionId, sessions, input, images,
                   csvContext, sessionCsvRows, sessionCsvHeaders, csvDataSummary,
                   sessionSlimCsv, jsonContext, sessionJsonData, initPending,
                   abortRef, tpc, turn, dispatched>>
    /\ UNCHANGED <<loopVars, execVars, turnVars, parseVars, restVars>>

\* The Chat component after login, in a new chat or in an open session.
SendChatInit ==
    /\ interviewContext = FALSE
    /\ activeSessionId \in {"new", "s1"}
    /\ sessions = DbSessions
    /\ input = <<>>
    /\ images = FALSE
    /\ csvContext = NULL
    /\ sessionCsvRows = NULL
    /\ sessionCsvHeaders = NULL
    /\ csvDataSummary = NULL
    /\ sessionSlimCsv = NULL
    /\ jsonContext = NULL
    /\ sessionJsonData = NULL
    /\ streaming = FALSE
    /\ initPending = FALSE
    /\ abortRef = FALSE
    /\ tpc = "idle"
    /\ turn = NoTurn
    /\ dispatched = NoDispatch

SendNext ==
    \/ TypeInput
    \/ HandleSend
    \/ SessionCreated
    \/ UserSaved
    \/ TurnEnd
    \/ SecondSend
    \/ SecondSessionCreated
    \/ SecondUserSaved
    \/ SecondTurnEnd

(***************************************************************************)
(* A CSV file on its way into the prompt: parseCSV, part_000:36-52, and    *)
(* the csvPrefix of the Python path, part_000:429-443                      *)
(***************************************************************************)

\* The cap of parseCSV, part_000:47-49.
CsvCap == 500000

\* A text is given by its length in characters and the number of its
\* non-blank lines; a piece of it by the text and the number of its leading
\* characters taken.
\* text.slice(0, n)
slice(text, n) == [of |-> text, chars |-> IF text.length > n THEN n ELSE text.length]

\* toBase64, part_000:29-34: the base64 form of the UTF-8 bytes of a piece;
\* the encoding loses nothing.
toBase64(raw) == [base64 |-> raw]

\* null as parseCSV returns it for a text without a non-blank line.
NoCsv ==
    [isNull |-> TRUE, rowCount |-> 0,
     base64 |-> toBase64(slice([length |-> 0, lines |-> 0], 0)),
     truncated |-> FALSE]

\* parseCSV, part_000:36-52
parseCSV(text) ==
    IF text.lines = 0 THEN NoCsv
    ELSE [isNull |-> FALSE, rowCount |-> text.lines - 1,
          base64 |-> toBase64(slice(text, IF text.length > CsvCap THEN CsvCap
                                          ELSE text.length)),
          truncated |-> text.length > CsvCap]

\* The values the template of csvPrefix interpolates, on the Python path
\* (part_000:431-443) and on the standard path (part_000:445-451).
csvPrefixFields(p, nb64) ==
    IF nb64
    THEN [form |-> "base64", rowCount |-> p.rowCount, base64 |-> p.base64]
    ELSE [form |-> "plain", rowCount |-> p.rowCount]

NoPrefix == [form |-> "none"]

\* The texts tried: lengths around the cap, blank or with lines.
CsvTexts ==
    LET CsvLengths == {0, 1, 40, CsvCap - 1, CsvCap, CsvCap + 1, 2 * CsvCap, 3 * CsvCap}
        CsvLineCounts == {0, 1, 2, 7, 30}
    IN  { t \in [length : CsvLengths, lines : CsvLineCounts] :
              /\ t.lines <= t.length
              /\ t.length = 0 => t.lines = 0 }

ParseIdle ==
    /\ csvText = [length |-> 0, lines |-> 0]
    /\ parsed = NoCsv
    /\ prefix = NoPrefix
    /\ ppc = "off"

ParseInit ==
    /\ csvText \in CsvTexts
    /\ parsed = NoCsv
    /\ prefix = NoPrefix
    /\ ppc = "read"

\* part_000:272-276: the text has been read and is parsed.
ParseCsv ==
    /\ ppc = "read"
    /\ parsed' = parseCSV(csvText)
    /\ ppc' = IF parseCSV(csvText).isNull THEN "ignored" ELSE "parsed"
    /\ UNCHANGED <<csvText, prefix>>
    /\ UNCHANGED <<chatVars, loopVars, execVars, turnVars, secondVars, restVars>>

\* part_000:408-455: a send with the chip of the file pending, asking for
\* Python or not.
BuildCsvPrefix ==
    /\ ppc = "parsed"
    /\ \E wpo \in BOOLEAN : prefix' = csvPrefixFields(parsed, needsBase64("data.csv", wpo))
    /\ ppc' = "built"
    /\ UNCHANGED <<csvText, parsed>>
    /\ UNCHANGED <<chatVars, loopVars, execVars, turnVars, secondVars, restVars>>

ParseNext ==
    \/ ParseCsv
    \/ BuildCsvPrefix

(***************************************************************************)
(* One call of durationToSeconds, jsonTools.js:76-96                       *)
(***************************************************************************)

\* The values handed to it: duration texts, plain numbers, the empty
\* string, null and a word.
DurationInputs ==
    { d.text : d \in DurationTexts } \cup {"60", "5", "", NULL, "nope"}

DurationIdle ==
    /\ durText = NULL
    /\ seconds = NaN
    /\ dpc = "off"

DurationInit ==
    /\ durText \in DurationInputs
    /\ seconds = NaN
    /\ dpc = "call"

DurationToSeconds ==
    /\ dpc = "call"
    /\ seconds' = durationToSeconds(durText)
    /\ dpc' = "done"
    /\ UNCHANGED durText
    /\ UNCHANGED <<coreVars, adapterVars, viewVars>>

DurationNext ==
    \/ DurationToSeconds

(***************************************************************************)
(* Tool catalogs and the schema adapter: JSON_TOOL_DECLARATIONS            *)
(* (jsonTools.js:7-63), IMAGE_TOOL_DECLARATIONS (part_002:3-21),           *)
(* toOpenAITools, normalizeParams and normalizeProp (gemini.js:27-57).     *)
(* A description is given by its first words.                              *)
(***************************************************************************)

JSON_TOOL_DECLARATIONS ==
    << [name |-> "compute_stats_json",
        description |-> "Compute descriptive statistics",
        parameters |->
            [type |-> "OBJECT",
             properties |->
                 [field |-> [type |-> "STRING",
                             description |-> "Exact numeric field name"]],
             required |-> <<"field">>]],
       [name |-> "plot_metric_vs_time",
        description |-> "Plot any numeric field vs time",
        parameters |->
            [type |-> "OBJECT",
             properties |->
                 [metric_field |-> [type |-> "STRING",
                                    description |-> "Numeric field to plot"],
                  date_field |-> [type |-> "STRING",
                                  description |-> "Date field for X-axis"]],
             required |-> <<"metric_field">>]],
       [name |-> "play_video",
        description |-> "Display a clickable video card",
        parameters |->
            [type |-> "OBJECT",
             properties |->
                 [video_selector |-> [type |-> "STRING",
                                      description |-> "How to select the video"]],
             required |-> <<"video_selector">>]] >>

IMAGE_TOOL_DECLARATIONS ==
    << [name |-> "generateImage",
        description |-> "Generate a new image",
        parameters |->
            [type |-> "OBJECT",
             properties |->
                 [prompt |-> [type |-> "STRING",
                              description |-> "Detailed text prompt"]],
             required |-> <<"prompt">>]] >>

\* A concatenation that lists the image tool twice.
ALL_JSON_TOOLS_imageTwice ==
    JSON_TOOL_DECLARATIONS \o IMAGE_TOOL_DECLARATIONS \o IMAGE_TOOL_DECLARATIONS

\* gemini.js:258
ALL_JSON_TOOLS == JSON_TOOL_DECLARATIONS \o IMAGE_TOOL_DECLARATIONS

\* The names of a catalog, in its order.
NamesOf(catalog) == [i \in 1..Len(catalog) |-> catalog[i].name]

\* A property copied without a change of its type token.
normalizeProp_keepsToken(prop) == prop

\* normalizeProp, gemini.js:49-57: a copy of the property with its own type
\* token lower-cased when it is one of the five; what the property holds
\* (items, properties) is copied as it is.
normalizeProp(prop) ==
    LET lower == ("STRING" :> "string") @@ ("NUMBER" :> "number")
                 @@ ("BOOLEAN" :> "boolean") @@ ("ARRAY" :> "array")
                 @@ ("OBJECT" :> "object")
    IN  IF "type" \in DOMAIN prop /\ prop.type \in DOMAIN lower
        THEN [prop EXCEPT !.type = lower[prop.type]]
        ELSE prop

\* normalizeParams, gemini.js:38-47
normalizeParams(params) ==
    LET p == IF "type" \in DOMAIN params /\ params.type = "OBJECT"
             THEN [params EXCEPT !.type = "object"]
             ELSE params
    IN  IF "properties" \in DOMAIN p
        THEN [p EXCEPT !.properties =
                 [k \in DOMAIN p.properties |-> normalizeProp(p.properties[k])]]
        ELSE p

\* toOpenAITools, gemini.js:27-36; d.description || '' and d.parameters || {}
\* for a declaration without them.
toOpenAITools(decls) ==
    [i \in 1..Len(decls) |->
        [type |-> "function",
         function |->
             [name |-> decls[i].name,
              description |-> (IF "description" \in DOMAIN decls[i]
                               THEN decls[i].description ELSE ""),
              parameters |-> normalizeParams(IF "parameters" \in DOMAIN decls[i]
                                             THEN decls[i].parameters ELSE <<>>)]]]

\* The catalogs tried: those of the source, and one-declaration catalogs
\* whose two properties carry every pair of type tokens (the five, one the
\* adapter does not know, one already lower-cased), a property without
\* type, an array with typed items, an object with typed properties, a
\* declaration without parameters and one without description.
CatalogSamples ==
    LET Tokens == {"STRING", "NUMBER", "BOOLEAN", "ARRAY", "OBJECT", "INTEGER",
                   "string"}
        Decl(props) ==
            [name |-> "sample", description |-> "A sample",
             parameters |-> [type |-> "OBJECT", properties |-> props,
                             required |-> <<"a">>]]
        Nested ==
            { [type |-> "ARRAY", items |-> [type |-> "STRING"]],
              [type |-> "OBJECT", properties |-> [x |-> [type |-> "NUMBER"]]],
              [description |-> "untyped"] }
    IN  {JSON_TOOL_DECLARATIONS, IMAGE_TOOL_DECLARATIONS, ALL_JSON_TOOLS, <<>>}
        \cup { <<Decl([a |-> [type |-> t], b |-> [type |-> u]])>> :
                   t \in Tokens, u \in Tokens }
        \cup { <<Decl([a |-> n])>> : n \in Nested }
        \cup { << [name |-> "bare", description |-> "No parameters"] >>,
               << [name |-> "mute",
                   parameters |-> [type |-> "OBJECT", properties |-> <<>>]] >> }

AdapterIdle ==
    /\ declarations = <<>>
    /\ tools = <<>>
    /\ renormalized = <<>>
    /\ apc = "off"

AdapterInit ==
    /\ declarations \in CatalogSamples
    /\ tools = <<>>
    /\ renormalized = <<>>
    /\ apc = "call"

\* tools = toOpenAITools(catalog), gemini.js:185, 267. The adapter assigns
\* only to the copies it makes ({ ...params }, { ...prop }): the catalog is
\* left as it was.
ToOpenAITools ==
    /\ apc = "call"
    /\ tools' = toOpenAITools(declarations)
    /\ apc' = "adapted"
    /\ UNCHANGED <<declarations, renormalized>>
    /\ UNCHANGED <<coreVars, durationVars, viewVars>>

\* normalizeParams applied to each schema the adapter returned.
NormalizeAgain ==
    /\ apc = "adapted"
    /\ renormalized' =
           [i \in 1..Len(tools) |-> normalizeParams(tools[i].function.parameters)]
    /\ apc' = "again"
    /\ UNCHANGED <<declarations, tools>>
    /\ UNCHANGED <<coreVars, durationVars, viewVars>>

AdapterNext ==
    \/ ToOpenAITools
    \/ NormalizeAgain

(***************************************************************************)
(* Sessions around a turn: the activeSessionId effect (part_000:164-177),  *)
(* handleNewChat, handleSelectSession (part_000:192-214), handleStop       *)
(* (part_000:378-380) and the positions of handleSend (part_000:384-657)   *)
(* at its awaits. A message is [session, role, turn]: the session whose    *)
(* conversation it is part of and the turn that made it (0 for what the    *)
(* store held before); its content is left out, and the running turn       *)
(* counts the fragments applied to its assistant message. The effect is    *)
(* taken together with the state change that triggers it; what is typed    *)
(* and attached is left out: a send is always possible when the guard on   *)
(* streaming and activeSessionId allows it.                                *)
(***************************************************************************)

\* The most fragments a stream delivers.
MaxFragments == 2

\* The ids createSession may return.
NewSessionIds == {"n1", "n2"}

\* What the store holds at login: two sessions with one turn each.
StoredBefore ==
    << [session |-> "s1", role |-> "user", turn |-> 0],
       [session |-> "s1", role |-> "model", turn |-> 0],
       [session |-> "s2", role |-> "user", turn |-> 0],
       [session |-> "s2", role |-> "model", turn |-> 0] >>

\* loadMessages(sessionId), server/index.js:176-200: the messages of the
\* session in the order they were pushed.
loadMessages(sessionId) == SelectSeq(store, LAMBDA m : m.session = sessionId)

\* A turn saved to the session that is active when the save is made.
savedSession_active(t, active) == active

\* The sessionId both saveMessage calls are given: the local of handleSend
\* fixed at part_000:390-394, not the state activeSessionId.
savedSession(t, active) == t.session

ViewIdle ==
    /\ loads = {}
    /\ stopped = FALSE

\* After login: a fresh chat is active and nothing is displayed.
ViewInit ==
    /\ interviewContext = FALSE
    /\ activeSessionId = "new"
    /\ sessions = {"s1", "s2"}
    /\ input = <<>>
    /\ images = FALSE
    /\ csvContext = NULL
    /\ sessionCsvRows = NULL
    /\ sessionCsvHeaders = NULL
    /\ csvDataSummary = NULL
    /\ sessionSlimCsv = NULL
    /\ jsonContext = NULL
    /\ sessionJsonData = NULL
    /\ streaming = FALSE
    /\ initPending = FALSE
    /\ abortRef = FALSE
    /\ tpc = "idle"
    /\ turn = NoTurn
    /\ dispatched = NoDispatch
    /\ chatMessages = <<>>
    /\ store = StoredBefore
    /\ history = <<>>
    /\ stream = NoStream
    /\ fullContent = <<>>
    /\ structuredParts = NoParts
    /\ groundingData = FALSE
    /\ toolCharts = <<>>
    /\ turnToolCalls = <<>>
    /\ applied = <<>>
    /\ abortObserved = FALSE
    /\ caught = FALSE
    /\ turns = 0
    /\ loads = {}
    /\ stopped = FALSE

\* What the actions of this section leave alone.
ViewFrame ==
    /\ UNCHANGED <<interviewContext, input, images, csvContext, sessionCsvRows,
                   sessionCsvHeaders, csvDataSummary, sessionSlimCsv, jsonContext,
                   sessionJsonData, initPending, dispatched>>
    /\ UNCHANGED <<history, stream, fullContent, structuredParts, groundingData,
                   toolCharts, turnToolCalls, applied, caught>>
    /\ UNCHANGED <<loopVars, execVars, secondVars, parseVars, durationVars,
                   adapterVars>>

\* handleSelectSession, part_000:204-214, and the effect, part_000:174-175:
\* the list is emptied and a load started; a load already under way is not
\* cancelled.
ViewSelectSession ==
    /\ \E s \in sessions :
           /\ s # activeSessionId
           /\ activeSessionId' = s
           /\ loads' = loads \cup {s}
    /\ chatMessages' = <<>>
    /\ UNCHANGED <<sessions, streaming, abortRef, tpc, turn, store, turns,
                   abortObserved, stopped>>
    /\ ViewFrame

\* handleNewChat, part_000:192-202
ViewNewChat ==
    /\ activeSessionId # "new" \/ chatMessages # <<>>
    /\ activeSessionId' = "new"
    /\ chatMessages' = <<>>
    /\ UNCHANGED <<sessions, streaming, abortRef, tpc, turn, store, turns,
                   abortObserved, loads, stopped>>
    /\ ViewFrame

\* loadMessages(..).then(setMessages), part_000:175: the response replaces
\* the list, whatever session is active by now.
LoadResolved ==
    /\ \E s \in loads :
           /\ chatMessages' = loadMessages(s)
           /\ loads' = loads \ {s}
    /\ UNCHANGED <<activeSessionId, sessions, streaming, abortRef, tpc, turn,
                   store, turns, abortObserved, stopped>>
    /\ ViewFrame

\* part_000:498-514: the user message is appended to the list and the
\* in-flight flag set; handleSend waits for saveMessage.
ViewBeginTurn(sessionId, mode) ==
    /\ turn' = [session |-> sessionId, n |-> turns + 1, mode |-> mode,
                fragments |-> 0]
    /\ chatMessages' = Append(chatMessages,
                              [session |-> sessionId, role |-> "user",
                               turn |-> turns + 1])
    /\ streaming' = TRUE
    /\ stopped' = FALSE
    /\ turns' = turns + 1
    /\ tpc' = "saveUser"

\* handleSend up to its first await, part_000:384-398; the mode is the one
\* the routing policy selects: the stream or a tool loop.
ViewSend ==
    /\ tpc = "idle"
    /\ ~streaming
    /\ activeSessionId # NULL
    /\ turns < MaxTurns
    /\ \E mode \in {"stream", "tools"} :
           IF activeSessionId = "new"
           THEN /\ NewSessionIds \ sessions # {}
                /\ tpc' = "createSession"
                /\ turn' = [session |-> NULL, n |-> turns + 1, mode |-> mode,
                            fragments |-> 0]
                /\ UNCHANGED <<chatMessages, streaming, stopped, turns,
                               activeSessionId, sessions>>
           ELSE /\ ViewBeginTurn(activeSessionId, mode)
                /\ UNCHANGED <<activeSessionId, sessions>>
    /\ UNCHANGED <<abortRef, store, abortObserved, loads>>
    /\ ViewFrame

\* createSession resolved, part_000:393-397: the new session becomes the
\* active one; the effect finds justCreatedSessionRef set, clears it and
\* leaves the list as it is (part_000:171-173).
ViewSessionCreated ==
    /\ tpc = "createSession"
    /\ \E id \in NewSessionIds \ sessions :
           /\ activeSessionId' = id
           /\ sessions' = sessions \cup {id}
           /\ ViewBeginTurn(id, turn.mode)
    /\ UNCHANGED <<abortRef, store, abortObserved, loads>>
    /\ ViewFrame

\* saveMessage for the user message resolved, part_000:517-532: the
\* assistant message is appended to the list and the abort flag reset.
ViewUserSaved ==
    /\ tpc = "saveUser"
    /\ store' = Append(store, [session |-> savedSession(turn, activeSessionId),
                               role |-> "user", turn |-> turn.n])
    /\ chatMessages' = Append(chatMessages,
                              [session |-> turn.session, role |-> "model",
                               turn |-> turn.n])
    /\ abortRef' = FALSE
    /\ tpc' = "provider"
    /\ UNCHANGED <<activeSessionId, sessions, streaming, turn, turns,
                   abortObserved, loads, stopped>>
    /\ ViewFrame

\* A saveMessage call rejected: both awaits stand outside the try block
\* (part_000:517, 641), so handleSend ends there.
SaveRejected ==
    /\ tpc \in {"saveUser", "saveModel"}
    /\ tpc' = "rejected"
    /\ UNCHANGED <<activeSessionId, sessions, streaming, abortRef, turn,
                   chatMessages, store, turns, abortObserved, loads, stopped>>
    /\ ViewFrame

\* One arrival of the stream, part_000:605-611: the flag is tested, then
\* the fragment applied to the assistant message of the turn (found by its
\* id, wherever the list holds it).
ViewFragment ==
    /\ tpc = "provider"
    /\ turn.mode = "stream"
    /\ turn.fragments < MaxFragments
    /\ IF abortRef
       THEN /\ abortObserved' = TRUE
            /\ tpc' = "saveModel"
            /\ UNCHANGED turn
       ELSE /\ turn' = [turn EXCEPT !.fragments = @ + 1]
            /\ UNCHANGED <<abortObserved, tpc>>
    /\ UNCHANGED <<activeSessionId, sessions, streaming, abortRef, chatMessages,
                   store, turns, loads, stopped>>
    /\ ViewFrame

\* The provider call is over, part_000:554-630: the stream ended or failed,
\* or the tool loop returned or failed; a failure is caught and handleSend
\* goes on to the save.
ProviderDone ==
    /\ tpc = "provider"
    /\ tpc' = "saveModel"
    /\ UNCHANGED <<activeSessionId, sessions, streaming, abortRef, turn,
                   chatMessages, store, turns, abortObserved, loads, stopped>>
    /\ ViewFrame

\* saveMessage for the assistant message resolved, part_000:638-656
ViewModelSaved ==
    /\ tpc = "saveModel"
    /\ store' = Append(store, [session |-> savedSession(turn, activeSessionId),
                               role |-> "model", turn |-> turn.n])
    /\ streaming' = FALSE
    /\ tpc' = "idle"
    /\ turn' = NoTurn
    /\ abortObserved' = FALSE
    /\ UNCHANGED <<activeSessionId, sessions, abortRef, chatMessages, turns,
                   loads, stopped>>
    /\ ViewFrame

\* handleStop, part_000:378-380; the Stop button is shown while streaming
\* (part_000:1037-1040).
ViewStop ==
    /\ streaming
    /\ ~abortRef
    /\ abortRef' = TRUE
    /\ stopped' = TRUE
    /\ UNCHANGED <<activeSessionId, sessions, streaming, tpc, turn, chatMessages,
                   store, turns, abortObserved, loads>>
    /\ ViewFrame

\* The steps handleSend takes by itself once it was called.
ViewContinue ==
    \/ ViewSessionCreated
    \/ ViewUserSaved
    \/ ViewFragment
    \/ ProviderDone
    \/ ViewModelSaved

ViewNext ==
    \/ ViewSelectSession
    \/ ViewNewChat
    \/ LoadResolved
    \/ ViewSend
    \/ ViewSessionCreated
    \/ ViewUserSaved
    \/ SaveRejected
    \/ ViewFragment
    \/ ProviderDone
    \/ ViewModelSaved
    \/ ViewStop

RestIdle == DurationIdle /\ AdapterIdle /\ ViewIdle

(***************************************************************************)
(* Specifications                                                          *)
(***************************************************************************)

ChatIdle ==
    /\ interviewContext = FALSE
    /\ activeSessionId = NULL
    /\ sessions = {}
    /\ input = <<>>
    /\ images = FALSE
    /\ csvContext = NULL
    /\ sessionCsvRows = NULL
    /\ sessionCsvHeaders = NULL
    /\ csvDataSummary = NULL
    /\ sessionSlimCsv = NULL
    /\ jsonContext = NULL
    /\ sessionJsonData = NULL
    /\ streaming = FALSE
    /\ initPending = TRUE
    /\ abortRef = FALSE
    /\ tpc = "idle"
    /\ turn = NoTurn
    /\ dispatched = NoDispatch

\* No second call of handleSend is followed.
SecondIdle == tpc2 = "idle"

\* The Chat component and its routing.
Init == ChatInit /\ LoopIdle /\ ExecIdle /\ TurnIdle /\ SecondIdle /\ ParseIdle /\ RestIdle
Next == ChatNext
Spec == Init /\ [][Next]_vars

\* The Chat component while handleSend awaits a tool loop, part_000:532-602:
\* the turn is in flight, the abort flag has just been reset and the Stop
\* button is shown. Of the chat state only the two flags matter to the loop.
ChatInFlight ==
    /\ interviewContext = FALSE
    /\ activeSessionId = "s1"
    /\ sessions = {"s1"}
    /\ input = <<>>
    /\ images = FALSE
    /\ csvContext = NULL
    /\ sessionCsvRows = NULL
    /\ sessionCsvHeaders = NULL
    /\ csvDataSummary = NULL
    /\ sessionSlimCsv = NULL
    /\ jsonContext = NULL
    /\ sessionJsonData = NULL
    /\ streaming = TRUE
    /\ initPending = FALSE
    /\ abortRef = FALSE
    /\ tpc = "provider"
    /\ turn = NoTurn
    /\ dispatched = [NoDispatch EXCEPT !.call = fn]

\* One run of a tool-call loop against a provider stub, with the Stop button
\* within reach.
LoopStart == LoopInit /\ ChatInFlight /\ ExecIdle /\ TurnIdle /\ SecondIdle /\ ParseIdle /\ RestIdle
LoopStep == LoopNext \/ HandleStop
LoopSpec == LoopStart /\ [][LoopStep]_vars

\* One call of the structured-record executor.
ExecStart == ChatIdle /\ LoopIdle /\ ExecInit /\ TurnIdle /\ SecondIdle /\ ParseIdle /\ RestIdle
ExecStep == ExecNext
ExecSpec == ExecStart /\ [][ExecStep]_vars

\* One CSV file from its text to the prompt prefix.
ParseStart == ChatIdle /\ LoopIdle /\ ExecIdle /\ TurnIdle /\ SecondIdle /\ ParseInit /\ RestIdle
ParseStep == ParseNext
ParseSpec == ParseStart /\ [][ParseStep]_vars

\* Two calls of handleSend side by side.
DurationStart ==
    /\ ChatIdle /\ LoopIdle /\ ExecIdle /\ TurnIdle /\ SecondIdle /\ ParseIdle
    /\ DurationInit /\ AdapterIdle /\ ViewIdle
DurationStep == DurationNext
DurationSpec == DurationStart /\ [][DurationStep]_vars

AdapterStart ==
    /\ ChatIdle /\ LoopIdle /\ ExecIdle /\ TurnIdle /\ SecondIdle /\ ParseIdle
    /\ DurationIdle /\ AdapterInit /\ ViewIdle
AdapterStep == AdapterNext
AdapterSpec == AdapterStart /\ [][AdapterStep]_vars

ViewStart ==
    /\ ViewInit /\ LoopIdle /\ ExecIdle /\ SecondIdle /\ ParseIdle
    /\ DurationIdle /\ AdapterIdle
ViewStep == ViewNext
ViewSpec == ViewStart /\ [][ViewStep]_vars

\* Every promise handleSend waits for settles, and an arrival or the end of
\* the provider call comes: each of its steps is taken once it can be. A
\* rejected saveMessage is a possible settlement, not a required one.
ViewFairSpec ==
    /\ ViewSpec
    /\ WF_vars(ViewSessionCreated)
    /\ WF_vars(ViewUserSaved \/ SaveRejected)
    /\ WF_vars(ViewFragment \/ ProviderDone)
    /\ WF_vars(ViewModelSaved \/ SaveRejected)

SendStart == SendChatInit /\ LoopIdle /\ ExecIdle /\ TurnIdle /\ SecondIdle /\ ParseIdle /\ RestIdle
SendStep == SendNext
SendSpec == SendStart /\ [][SendStep]_vars

\* A conversation of up to MaxTurns turns in an open session, under either
\* backend; the tool loops are taken by what they resolve to.
TurnLoopIdle ==
    /\ backend \in Backends
    /\ fn = NULL
    /\ lpc = "off"
    /\ round = 0
    /\ invocations = 0
    /\ response = NoResponse
    /\ sent = <<>>
    /\ chatHistory = <<>>
    /\ toolCalls = <<>>
    /\ charts = <<>>
    /\ generatedImages = <<>>
    /\ requested = <<>>
    /\ returned = [text |-> "", charts |-> <<>>, toolCalls |-> <<>>,
                   generatedImages |-> <<>>]

TurnStart == TurnChatInit /\ TurnLoopIdle /\ ExecIdle /\ TurnIdle /\ SecondIdle /\ ParseIdle /\ RestIdle
TurnStep == TurnNext
TurnSpec == TurnStart /\ [][TurnStep]_vars


(***************************************************************************)
(* Routing claims, checked under Spec                                      *)
(***************************************************************************)

\* A turn has been handed to a service; turn holds what handleSend read.
Routed == tpc = "provider"

MatchesPythonOnly == RegexTest(PYTHON_ONLY_KEYWORDS, turn.text)
MatchesCodeIntent == RegexTest(CODE_KEYWORDS, turn.text)
CodeExecutionMode == dispatched.call = "streamChat" /\ dispatched.useCodeExecution
SearchMode == dispatched.call = "streamChat" /\ ~dispatched.useCodeExecution

\* C2: whenever the text matches a Python-only keyword the turn is dispatched
\* to code-execution mode, whatever attachment state is loaded.
C2_PythonOnlyDispatchesCodeExecution ==
    (Routed /\ MatchesPythonOnly) => CodeExecutionMode

\* C3 (as stated): whenever the text matches a code-intent keyword and
\* structured-record tool mode is not selected, the turn is dispatched to
\* code-execution mode, also when tabular rows are loaded or freshly dropped.
C3_CodeIntentDispatchesCodeExecution ==
    (Routed /\ MatchesCodeIntent /\ dispatched.call # "chatWithJsonTools")
        => CodeExecutionMode

\* C3 (amended): whenever the text matches a code-intent keyword, no tabular
\* rows are loaded in the session and structured-record tool mode is not
\* selected, the turn is dispatched to code-execution mode; with rows loaded
\* a code-intent keyword alone leads to tabular tool mode, or to search mode
\* when the CSV was freshly dropped.
C3_CodeIntentWithoutRowsDispatchesCodeExecution ==
    /\ (Routed /\ MatchesCodeIntent /\ turn.sessionCsvRows = NULL
               /\ dispatched.call # "chatWithJsonTools")
           => CodeExecutionMode
    /\ (Routed /\ MatchesCodeIntent /\ ~MatchesPythonOnly
               /\ turn.sessionCsvRows # NULL)
           => /\ ~CodeExecutionMode
              /\ dispatched.call = "chatWithCsvTools" <=> turn.capturedCsv = NULL
              /\ SearchMode <=> turn.capturedCsv # NULL

C3_Witness ==
    /\ Routed
    /\ MatchesCodeIntent
    /\ ~MatchesPythonOnly
    /\ turn.sessionCsvRows = NULL
    /\ turn.sessionJsonData # NULL
    /\ CodeExecutionMode

\* C4 (as stated): tabular tool mode is selected only if rows are loaded, no
\* CSV was freshly dropped, the text matches neither a code-intent nor a
\* Python-only keyword, and structured-record tool mode is not selected.
C4_CsvToolsOnlyWithoutCodeIntent ==
    (Routed /\ dispatched.call = "chatWithCsvTools")
        => /\ turn.sessionCsvRows # NULL
           /\ turn.capturedCsv = NULL
           /\ ~MatchesCodeIntent
           /\ ~MatchesPythonOnly
           /\ ~(turn.sessionJsonData # NULL /\ ~turn.wantCode)

\* C4 (amended): tabular tool mode is selected only if rows are loaded, no
\* CSV was freshly dropped, the text matches no Python-only keyword, and
\* structured-record tool mode is not selected.
C4_CsvToolsOnlyIf ==
    (Routed /\ dispatched.call = "chatWithCsvTools")
        => /\ turn.sessionCsvRows # NULL
           /\ turn.capturedCsv = NULL
           /\ ~MatchesPythonOnly
           /\ ~(turn.sessionJsonData # NULL /\ ~turn.wantCode)

C4_Witness ==
    /\ Routed
    /\ dispatched.call = "chatWithCsvTools"
    /\ MatchesCodeIntent
    /\ turn.sessionCsvRows # NULL

\* C5: whenever sessionJsonData is set and the text matches no code-intent
\* and no Python-only keyword, the turn goes to chatWithJsonTools.
C5_JsonContextDispatchesJsonTools ==
    (Routed /\ turn.sessionJsonData # NULL /\ ~MatchesCodeIntent
            /\ ~MatchesPythonOnly)
        => dispatched.call = "chatWithJsonTools"

C5_Witness ==
    /\ Routed
    /\ turn.sessionJsonData = "empty"
    /\ turn.text = <<"average", "views">>
    /\ dispatched.call = "chatWithJsonTools"

\* C6: whenever tabular rows were loaded on an earlier turn (no fresh drop),
\* no structured-record context is active and the text matches no keyword,
\* the turn goes to chatWithCsvTools with the session rows as executor data.
C6_LoadedRowsDispatchCsvTools ==
    (Routed /\ turn.sessionCsvRows # NULL /\ turn.capturedCsv = NULL
            /\ turn.sessionJsonData = NULL /\ ~MatchesCodeIntent
            /\ ~MatchesPythonOnly)
        => /\ dispatched.call = "chatWithCsvTools"
           /\ dispatched.data = turn.sessionCsvRows

C6_Witness ==
    /\ Routed
    /\ turn.sessionCsvRows = "data.csv"
    /\ turn.capturedCsv = NULL
    /\ turn.text = <<"average", "views">>
    /\ dispatched.call = "chatWithCsvTools"
    /\ dispatched.data = "data.csv"

\* C7: for every combination of routing inputs at most one of the indicators
\* useJsonTools, useTools and useCodeExecution is true, and streaming/search
\* mode is used exactly when none of them is.
C7_ExactlyOneIndicator ==
    Routed =>
        /\ Cardinality({ k \in {"useJsonTools", "useTools", "useCodeExecution"} :
                         turn[k] }) <= 1
        /\ SearchMode <=> (~turn.useJsonTools /\ ~turn.useTools
                           /\ ~turn.useCodeExecution)

\* C8: a turn whose prompt embeds the base64 payload is dispatched to
\* code-execution mode; in structured-record tool mode, tabular tool mode
\* and search mode the prompt never contains the payload.
C8_Base64OnlyInCodeExecution ==
    Routed =>
        /\ (dispatched.prompt.csvPrefix = "base64") = turn.needsBase64
        /\ dispatched.prompt.csvPrefix = "base64" => CodeExecutionMode
        /\ (dispatched.call \in {"chatWithJsonTools", "chatWithCsvTools"}
            \/ SearchMode) => dispatched.prompt.csvPrefix # "base64"

C8_Witness ==
    /\ Routed
    /\ dispatched.prompt.csvPrefix = "base64"
    /\ turn.capturedCsv = "data.csv"
    /\ CodeExecutionMode

(***************************************************************************)
(* Tool-call loop claims, checked under LoopSpec                           *)
(***************************************************************************)

ToolResponseIds(conv) ==
    LET sel == SelectSeq(conv, LAMBDA m : m.role \in {"tool", "function"})
    IN  Flatten([k \in 1..Len(sel) |-> sel[k].ids])

ToolRequestIds(conv) ==
    LET sel == SelectSeq(conv, LAMBDA m : m.role \in {"assistant", "model"})
    IN  Flatten([k \in 1..Len(sel) |-> sel[k].ids])

Range(seq) == { seq[k] : k \in DOMAIN seq }

\* C1: whatever the provider answers, a loop runs at most Ceiling(fn) tool
\* rounds (5 for chatWithCsvTools, 8 for chatWithJsonTools) and calls the
\* provider at most Ceiling(fn) + 1 times; it is never stuck before it has
\* ended, at the ceiling it can only return, and what it returns holds the
\* text of the last response and the charts and tool-call records
\* accumulated so far.
C1_LoopStopsAtCeiling ==
    /\ round <= Ceiling(fn)
    /\ invocations <= Ceiling(fn) + 1
    /\ (lpc = "inspect" /\ round = Ceiling(fn))
           => (ENABLED LoopReturn /\ ~ENABLED ExecuteRoundOpenAI
               /\ ~ENABLED ExecuteRoundGemini)
    /\ lpc \notin {"done", "failed"} => ENABLED LoopNext
    /\ lpc = "done"
           => /\ returned.toolCalls = toolCalls
              /\ returned.charts = charts
              /\ returned.text = response.text
              /\ Len(returned.toolCalls) >= round

C1_Witness ==
    /\ lpc = "done"
    /\ fn = "chatWithJsonTools"
    /\ response.calls # <<>>
    /\ round = JsonRoundCeiling
    /\ invocations = JsonRoundCeiling + 1
    /\ Len(returned.toolCalls) >= JsonRoundCeiling

\* C9: every tool-call request of every response inspected in a round is
\* executed exactly once and recorded, so toolCalls is the concatenation,
\* round by round, of the requested calls in the order requested.
C9_EveryRequestExecutedInOrder ==
    Ids(toolCalls) = requested

\* C10: the conversation passed to the provider in a follow-up call holds the
\* tool response, and the request it answers, of every tool call executed in
\* the earlier rounds of the turn, in execution order.
C10_ConversationHoldsAllToolResponses ==
    (lpc = "awaiting" /\ invocations >= 2)
        => /\ ToolResponseIds(sent) = Ids(toolCalls)
           /\ Range(Ids(toolCalls)) \subseteq Range(ToolRequestIds(sent))

\* The ids of the records whose result is of the given kind, in record order.
IdsOfKind(records, kind) ==
    LET sel == SelectSeq(records, LAMBDA r : r.result.kind = kind)
    IN  [k \in 1..Len(sel) |-> sel[k].id]

\* C11: at every await point of a tool loop and at return, charts is exactly
\* the subsequence of the toolCalls results that carry _chartType, in the
\* same order, generatedImages is exactly the subsequence of the results
\* tagged as generated images, and every chart belongs to a tool-call record.
C11_ChartsAreTaggedResultsInOrder ==
    /\ charts = IdsOfKind(toolCalls, "chart")
    /\ generatedImages = IdsOfKind(toolCalls, "image")
    /\ Range(charts) \subseteq Range(Ids(toolCalls))
    /\ lpc = "done"
           => /\ returned.charts = IdsOfKind(returned.toolCalls, "chart")
              /\ returned.generatedImages = IdsOfKind(returned.toolCalls, "image")

C11_Witness ==
    /\ lpc = "done"
    /\ fn = "chatWithJsonTools"
    /\ Len(returned.charts) >= 2
    /\ Len(returned.generatedImages) >= 1
    /\ Len(returned.toolCalls) > Len(returned.charts) + Len(returned.generatedImages)
    /\ \E k \in 1..Len(returned.toolCalls) : returned.toolCalls[k].result.kind = "card"

\* The records of the round just executed, while its follow-up call is awaited.
LastRoundRecords == SelectSeq(toolCalls, LAMBDA r : r.id[1] = invocations - 1)

C12_ErrorResultsAnswered ==
    /\ (lpc = "awaiting" /\ invocations >= 2)
           => /\ LET c == Head(response.calls)
                 IN  executeFn(fn, c.name, c.args).kind = "error"
                         => \E k \in 1..Len(LastRoundRecords) :
                                /\ LastRoundRecords[k].id = c.id
                                /\ LastRoundRecords[k].result.kind = "error"
              /\ \A k \in 1..Len(LastRoundRecords) :
                     LastRoundRecords[k].result.kind = "error"
                         => LastRoundRecords[k].id \in Range(ToolResponseIds(sent))
    /\ lpc = "done" => (response.calls = <<>> \/ round = Ceiling(fn))

C12_ErrorResultsContinue ==
    /\ lpc' = "failed" => lpc = "awaiting"
    /\ (lpc = "inspect" /\ response.calls # <<>> /\ RoundAllowed(fn, round))
           => /\ lpc' = "awaiting"
              /\ invocations' = invocations + 1
              /\ Len(toolCalls') > Len(toolCalls)

C13_ExecutorNeverThrows ==
    /\ epc # "thrown"
    /\ epc = "returned" => outcome.kind \in {"error", "stats", "chart", "card", "image"}

\* A call of the named tool on a non-empty list of records has come back.
Answered(name) ==
    /\ epc # "call"
    /\ toolName = name
    /\ videos.isArray
    /\ videos.rows # <<>>

\* The display card of a record.
CardOf(v) ==
    [kind |-> "card",
     title |-> (IF Get(v, "title") \in {NULL, ""} THEN "Untitled" ELSE v.title),
     url |-> Get(v, "video_id")]

\* The error of play_video, which names the selector it was given.
SelectorNotFound ==
    /\ outcome.kind = "error"
    /\ outcome.error = "Video not found"
    /\ outcome.selector = toolArgs.video_selector

\* C27: play_video resolves the selector as most/least viewed (a record of
\* extremal view count), then as an ordinal (the record at that 1-based
\* position), then as a case-insensitive substring of a title, and returns
\* the card of the selected record; for records A, B, C with view counts
\* 10, 30, 20 'most viewed' gives B, 'first' A and 'third' C; a selector that
\* matches nothing, an ordinal beyond the records and an empty selector
\* included, gives the error that names the selector.
C27_SelectorResolvedInPriorityOrder ==
    Answered("play_video") =>
        LET rows == videos.rows
            Idx == 1..Len(rows)
            sel == toLowerCase(IF toolArgs.video_selector = NULL
                               THEN "" ELSE toolArgs.video_selector)
            most == {"most viewed", "most viewed video"}
            least == {"least viewed", "least viewed video"}
            Picked(i) == outcome = CardOf(rows[i])
        IN  /\ epc = "returned"
            /\ sel \in most =>
                   \E i \in Idx :
                       /\ Picked(i)
                       /\ \A j \in Idx : ViewCount(rows[j]) <= ViewCount(rows[i])
            /\ sel \in least =>
                   \E i \in Idx :
                       /\ Picked(i)
                       /\ \A j \in Idx : ViewCount(rows[i]) <= ViewCount(rows[j])
            /\ sel \in DOMAIN OrdinalOf =>
                   IF OrdinalOf[sel] \in Idx THEN Picked(OrdinalOf[sel])
                   ELSE SelectorNotFound
            /\ sel \notin most \cup least \cup DOMAIN OrdinalOf =>
                   IF sel # "" /\ \E i \in Idx : TitleIncludes(rows[i], sel)
                   THEN \E i \in Idx : TitleIncludes(rows[i], sel) /\ Picked(i)
                   ELSE SelectorNotFound
            /\ ( /\ [i \in Idx |-> Get(rows[i], "title")] = <<"A", "B", "C">>
                 /\ [i \in Idx |-> ViewCount(rows[i])] = <<10, 30, 20>> ) =>
                   /\ sel = "most viewed" => outcome.title = "B"
                   /\ sel = "first" => outcome.title = "A"
                   /\ sel = "third" => outcome.title = "C"

\* A record has a date in the date field and a metric that is a number, or
\* a duration when the metric field is a duration field.
HasPoint(v, metricField, dateField) ==
    /\ Get(v, dateField) # NULL
    /\ metricField # NULL
    /\ \/ parseFloat(Get(v, metricField)) # NaN
       \/ /\ IsDurationField(metricField)
          /\ durationToSeconds(Get(v, metricField)) # NaN

\* C28: plot_metric_vs_time returns one point for every record with a
\* non-null date and a numeric or duration-coerced metric and no other
\* point, the points in ascending order of date, the date field being
\* release_date when none is given; it returns an error exactly when there
\* is no such record.
C28_OnePointPerDatedRecordSorted ==
    Answered("plot_metric_vs_time") =>
        LET rows == videos.rows
            metricField == resolveField(rows, toolArgs.metric_field)
            dateField == IF toolArgs.date_field \in {NULL, ""} THEN "release_date"
                         ELSE resolveField(rows, toolArgs.date_field)
            Dated == { i \in 1..Len(rows) : HasPoint(rows[i], metricField, dateField) }
        IN  /\ epc = "returned"
            /\ outcome.kind \in {"chart", "error"}
            /\ outcome.kind = "error" <=> Dated = {}
            /\ outcome.kind = "chart" =>
                   LET data == outcome.data
                   IN  /\ outcome.dateField = dateField
                       /\ Len(data) = Cardinality(Dated)
                       /\ \E f \in [1..Len(data) -> Dated] :
                              /\ \A m, n \in 1..Len(data) : m # n => f[m] # f[n]
                              /\ \A m \in 1..Len(data) :
                                     data[m].date = Get(rows[f[m]], dateField)
                       /\ \A m \in 1..(Len(data) - 1) :
                              DateOf[data[m].date] <= DateOf[data[m + 1].date]

\* C29: compute_stats_json returns, for a field with a numeric value, a
\* record whose count is the number of records with a numeric value in the
\* field and with min <= median <= max and min <= mean <= max; without any
\* numeric value it returns an error listing the available fields; the
\* duration parser is used only for a duration field whose values all fail
\* plain coercion.
C29_StatsCountedAndOrdered ==
    Answered("compute_stats_json") =>
        LET rows == videos.rows
            Idx == 1..Len(rows)
            field == resolveField(rows, toolArgs.field)
            Plain == { i \in Idx : parseFloat(Get(rows[i], field)) # NaN }
            AsDuration == { i \in Idx : durationToSeconds(Get(rows[i], field)) # NaN }
            Numeric == IF Plain = {} /\ field # NULL /\ IsDurationField(field)
                       THEN AsDuration ELSE Plain
        IN  /\ epc = "returned"
            /\ outcome.kind \in {"stats", "error"}
            /\ Numeric # {} =>
                   /\ outcome.kind = "stats"
                   /\ outcome.count = Cardinality(Numeric)
                   /\ outcome.min <= outcome.median /\ outcome.median <= outcome.max
                   /\ outcome.min <= outcome.mean /\ outcome.mean <= outcome.max
            /\ Numeric = {} =>
                   /\ outcome.kind = "error"
                   /\ outcome.available = Keys(rows[1])

\* C30: resolveField gives the requested name when it is a key of the first
\* record, otherwise the key whose lower-cased, separator-stripped form is
\* that of the name, otherwise the name; the result is a key or the name,
\* and resolving it again gives it back. View_Count and viewcount resolve to
\* view_count.
C30_ExactThenNormalisedThenUnchanged ==
    (Answered("compute_stats_json") /\ toolArgs.field # NULL) =>
        LET rows == videos.rows
            name == toolArgs.field
            keys == { Keys(rows[1])[i] : i \in 1..Len(Keys(rows[1])) }
            alike == { k \in keys : norm(k) = norm(name) }
            resolved == outcome.field
        IN  /\ name \in keys => resolved = name
            /\ (name \notin keys /\ alike # {}) => resolved \in alike
            /\ (name \notin keys /\ alike = {}) => resolved = name
            /\ resolved \in keys \cup {name}
            /\ resolveField(rows, resolved) = resolved
            /\ (name \in {"View_Count", "viewcount"} /\ "view_count" \in keys) =>
                   resolved = "view_count"


\* C38: every tool name advertised in structured-record mode, that is every
\* declaration of ALL_JSON_TOOLS, is dispatched by the executor of the turn
\* to a handler of its own; for none of them does it answer 'Unknown tool'.
C38_AdvertisedToolsDispatched ==
    \A i \in 1..Len(ALL_JSON_TOOLS) :
        (epc = "returned" /\ toolName = ALL_JSON_TOOLS[i].name) =>
            /\ outcome.kind \in {"stats", "chart", "card", "image", "error"}
            /\ outcome.kind = "error" => outcome.error # "Unknown tool"

C38_Witness ==
    /\ epc = "returned"
    /\ toolName = "play_video"
    /\ toolArgs.video_selector = "most viewed"
    /\ outcome.kind = "card"

C31_DurationFormsGiveSeconds ==
    dpc = "done" =>
        /\ \A d \in DurationTexts :
               ( /\ durText = d.text
                 /\ d.m # Absent /\ d.s # Absent
                 /\ d.form = "iso" => d.h # Absent ) =>
                     seconds = 3600 * (IF d.h = Absent THEN 0 ELSE d.h) + 60 * d.m + d.s
        /\ durText \in {"PT1H2M3S", "1:02:03"} => seconds = 3723
        /\ durText = "2:03" => seconds = 123


(***************************************************************************)
(* Claims about the schema adapter and the catalogs, checked under         *)
(* AdapterSpec                                                             *)
(***************************************************************************)

\* The lower-case form of the five type tokens; any other token is itself.
Lowered(token) ==
    IF token \in {"STRING", "NUMBER", "BOOLEAN", "ARRAY", "OBJECT"}
    THEN CHOOSE l \in {"string", "number", "boolean", "array", "object"} :
             \/ token = "STRING" /\ l = "string"
             \/ token = "NUMBER" /\ l = "number"
             \/ token = "BOOLEAN" /\ l = "boolean"
             \/ token = "ARRAY" /\ l = "array"
             \/ token = "OBJECT" /\ l = "object"
    ELSE token

TypeOf(schema) == IF "type" \in DOMAIN schema THEN {schema.type} ELSE {}

PropertiesOf(schema) ==
    IF "properties" \in DOMAIN schema THEN DOMAIN schema.properties ELSE {}

\* The pairs <<token given, token returned>> at the places of a parameter
\* schema: the container and each parameter.
OuterTokens(given, out) ==
    (TypeOf(given) \X TypeOf(out))
    \cup UNION { TypeOf(given.properties[k]) \X TypeOf(out.properties[k]) :
                    k \in PropertiesOf(given) }

\* The same inside a parameter: the items of an array and the properties
\* of an object.
InnerTokens(given, out) ==
    UNION { LET g == given.properties[k]
                o == out.properties[k]
            IN  (IF "items" \in DOMAIN g THEN TypeOf(g.items) \X TypeOf(o.items) ELSE {})
                \cup UNION { TypeOf(g.properties[x]) \X TypeOf(o.properties[x]) :
                                x \in PropertiesOf(g) } :
            k \in PropertiesOf(given) }

ParametersOf(d) == IF "parameters" \in DOMAIN d THEN d.parameters ELSE <<>>

\* What both statements of C32 say apart from the type tokens: idempotence,
\* one entry per declaration in order, names, descriptions, parameter names
\* and required lists kept.
AdapterKeepsShape ==
    apc = "again" =>
        /\ Len(tools) = Len(declarations)
        /\ \A i \in 1..Len(tools) :
               LET d == declarations[i]
                   f == tools[i].function
               IN  /\ renormalized[i] = f.parameters
                   /\ tools[i].type = "function"
                   /\ f.name = d.name
                   /\ "description" \in DOMAIN d => f.description = d.description
                   /\ PropertiesOf(f.parameters) = PropertiesOf(ParametersOf(d))
                   /\ "required" \in DOMAIN ParametersOf(d) =>
                          f.parameters.required = d.parameters.required

\* C32: normalizeParams applied to its own output changes nothing;
\* toOpenAITools gives one function entry per declaration in the same order
\* with name, description, parameter names and required list kept; every
\* type token among STRING, NUMBER, BOOLEAN, ARRAY, OBJECT is lower-cased
\* and any other token is passed through; the declarations given are not
\* modified.
C32_AllTokensLowered ==
    apc = "again" =>
        \A i \in 1..Len(tools) :
            \A pair \in OuterTokens(ParametersOf(declarations[i]), tools[i].function.parameters)
                        \cup InnerTokens(ParametersOf(declarations[i]),
                                         tools[i].function.parameters) :
                pair[2] = Lowered(pair[1])

C32_OuterTokensLowered ==
    apc = "again" =>
        \A i \in 1..Len(tools) :
            /\ \A pair \in OuterTokens(ParametersOf(declarations[i]),
                                       tools[i].function.parameters) :
                   pair[2] = Lowered(pair[1])
            /\ \A pair \in InnerTokens(ParametersOf(declarations[i]),
                                       tools[i].function.parameters) :
                   pair[2] = pair[1]

Distinct(names) == \A i, j \in 1..Len(names) : i # j => names[i] # names[j]

\* C33: within every catalog advertised to the provider the declaration
\* names are pairwise distinct; the structured-record catalog followed by
\* the image catalog (ALL_JSON_TOOLS) holds no name twice.
C33_AdvertisedNamesDistinct ==
    ( /\ apc \in {"adapted", "again"}
      /\ declarations \in {JSON_TOOL_DECLARATIONS, IMAGE_TOOL_DECLARATIONS,
                           ALL_JSON_TOOLS} ) =>
        /\ Distinct(NamesOf(declarations))
        /\ Distinct([i \in 1..Len(tools) |-> tools[i].function.name])

C33_Witness ==
    /\ apc = "adapted"
    /\ declarations = ALL_JSON_TOOLS
    /\ [i \in 1..Len(tools) |-> tools[i].function.name]
           = <<"compute_stats_json", "plot_metric_vs_time", "play_video",
               "generateImage">>


(***************************************************************************)
(* Claims about a turn, checked under TurnSpec                             *)
(***************************************************************************)

\* The assistant message of the running turn and the record last handed to
\* saveMessage.
AssistantMsg == chatMessages[Len(chatMessages)]
LastSaved == store[Len(store)]

RECURSIVE Concat(_)
Concat(texts) == IF texts = <<>> THEN <<>> ELSE Head(texts) \o Concat(Tail(texts))

\* The concatenation of the text fragments applied in the running turn.
AppliedText ==
    LET sel == SelectSeq(applied, LAMBDA c : c.type = "text")
    IN  Concat([k \in 1..Len(sel) |-> sel[k].text])

StreamingTurn == dispatched.call = "streamChat"

C14_AbortKeepsApplied ==
    abortObserved =>
        /\ tpc = "saveModel"
        /\ \A k \in DOMAIN applied : applied[k].type = "text"
        /\ AssistantMsg.role = "model"
        /\ AssistantMsg.content = AppliedText
        /\ ~AssistantMsg.parts.set
        /\ ~AssistantMsg.grounding
        /\ LastSaved.role = "model"
        /\ LastSaved.content = AppliedText

C14_NothingAppliedOnceSet ==
    /\ (abortRef /\ tpc = "provider" /\ StreamingTurn) => applied' = applied
    /\ abortObserved' => chatMessages' = chatMessages

\* C14: in a streaming turn, once the abort flag is found set no further
\* fragment (text, bundle or grounding) is applied, and the content
\* displayed and saved is the concatenation of exactly the text fragments
\* applied before; nothing applied is removed.
C14_AbortStopsStreaming ==
    []C14_AbortKeepsApplied /\ [][C14_NothingAppliedOnceSet]_vars

\* A turn stopped after its first text fragment, with a fragment, a bundle
\* and grounding not applied.
C14_Witness ==
    /\ abortObserved
    /\ Len(applied) = 1
    /\ stream.deliveries # <<>>
    /\ Len(stream.final) = 2
    /\ LastSaved.content = <<"a">>

\* C15: in a tool-mode turn the abort flag is polled between rounds: once a
\* stop is requested no further tool-execution round and no further model
\* invocation is started after the one in progress.
C15_NoRoundAfterStop ==
    [][abortRef => (invocations' = invocations /\ toolCalls' = toolCalls)]_vars

\* The non-empty texts of the response being streamed, in the order the
\* provider returns them, and the first k of them.
ArrivedTexts ==
    LET sel == SelectSeq(stream.response.parts,
                         LAMBDA p : p.field = "text" /\ p.text # <<>>)
    IN  [k \in 1..Len(sel) |-> sel[k].text]

FirstArrived(k) == Concat(SubSeq(ArrivedTexts, 1, k))

AppliedTexts == Len(SelectSeq(applied, LAMBDA c : c.type = "text"))

IsPrefix(s, t) == Len(s) <= Len(t) /\ SubSeq(t, 1, Len(s)) = s

\* The provider call of the running turn has failed and was caught.
Failed == tpc = "saveModel" /\ fullContent = errText

\* C16 as stated: in a streaming turn, after k text fragments and before a
\* bundle, the content of the assistant message is the concatenation of the
\* first k text fragments in arrival order.
C16_ContentIsPrefixOfArrivals ==
    (StreamingTurn /\ ~AssistantMsg.parts.set)
        => /\ AppliedTexts <= Len(ArrivedTexts)
           /\ AssistantMsg.content = FirstArrived(AppliedTexts)

C16_PrefixUnlessFailed ==
    (StreamingTurn /\ ~AssistantMsg.parts.set)
        => /\ AppliedTexts <= Len(ArrivedTexts)
           /\ AssistantMsg.content =
                  (IF Failed THEN errText ELSE FirstArrived(AppliedTexts))

C16_ContentGrows ==
    (StreamingTurn /\ tpc = "provider" /\ ~AssistantMsg.parts.set
       /\ ~AssistantMsg'.parts.set /\ ~Failed')
        => /\ IsPrefix(AssistantMsg.content, AssistantMsg'.content)
           /\ AppliedTexts' \in {AppliedTexts, AppliedTexts + 1}

\* C16, amended: in a streaming turn whose provider call has not failed,
\* after k text fragments and before a bundle the content of the assistant
\* message is the concatenation of the first k text fragments in arrival
\* order, and each such state is a prefix of the next; on a failure the
\* content is replaced by the error text.
C16_ContentIsPrefixUntilFailure ==
    []C16_PrefixUnlessFailed /\ [][C16_ContentGrows]_vars

\* Two text fragments applied, the second equal to the first, with an image
\* bundle still to come.
C16_Witness ==
    /\ tpc = "provider"
    /\ StreamingTurn
    /\ AppliedTexts = 2
    /\ AssistantMsg.content = <<"b", "b">>
    /\ stream.final # <<>>

\* The fragments of the streamed response that are text, code, a result or
\* an image, in the order the provider returned them, by position and kind.
FragmentKind(p) ==
    IF p.field = "executableCode" THEN "code"
    ELSE IF p.field = "codeExecutionResult" THEN "result"
    ELSE IF p.field = "inlineData" THEN "image"
    ELSE "text"

ProvidedFragments ==
    LET sel == SelectSeq(stream.response.parts,
                         LAMBDA p : \/ p.field = "text" /\ p.text # <<>>
                                    \/ p.field \in {"executableCode",
                                                    "codeExecutionResult",
                                                    "inlineData"})
    IN  [k \in 1..Len(sel) |->
            [id |-> sel[k].id, type |-> FragmentKind(sel[k]), text |-> sel[k].text]]

\* C17: the bundle attached to the assistant message lists the provider's
\* text, code, result and image fragments in exactly the order the provider
\* returned them, without reordering or deduplication, and the rendered
\* structure iterates them in that order.
C17_BundleKeepsProviderOrder ==
    (StreamingTurn /\ AssistantMsg.parts.set)
        => /\ AssistantMsg.parts.parts = ProvidedFragments
           /\ Rendered(AssistantMsg.parts.parts)
                  = [k \in 1..Len(ProvidedFragments) |-> ProvidedFragments[k].id]

\* A bundle of a text, a code fragment, its result, an image and a text.
C17_Witness ==
    /\ StreamingTurn
    /\ AssistantMsg.parts.set
    /\ [k \in 1..Len(AssistantMsg.parts.parts) |-> AssistantMsg.parts.parts[k].type]
           = <<"text", "code", "result", "image", "text">>
    /\ Rendered(AssistantMsg.parts.parts) = <<1, 2, 3, 4, 5>>

\* What the assistant message shows as text: the text segments of its
\* bundle, joined in order by line breaks, or its content.
ShownText(m) ==
    IF m.parts.set
    THEN LET sel == SelectSeq(m.parts.parts, LAMBDA p : p.type = "text")
         IN  JoinLines([k \in 1..Len(sel) |-> sel[k].text])
    ELSE m.content

\* C18: at the end of every turn the content saved for the assistant
\* message is the plain-text projection of what the message shows: the text
\* segments of the bundle joined in order when there is a bundle, otherwise
\* the accumulated streamed text or the final text of the tool loop.
C18_SavedIsTextOfShown ==
    tpc = "saveModel"
        => /\ LastSaved.role = "model"
           /\ LastSaved.content = ShownText(AssistantMsg)
           /\ (~AssistantMsg.parts.set /\ ~Failed)
                  => LastSaved.content =
                        (IF StreamingTurn THEN AppliedText ELSE AnswerText("final"))

\* A turn ends with a bundle holding two text segments around a code run.
C18_Witness ==
    /\ tpc = "saveModel"
    /\ AssistantMsg.parts.set
    /\ AssistantMsg.content = <<>>
    /\ LastSaved.content = <<"a", "\n", "b">>

\* A tool-call record handed to saveMessage holds the arguments of the call
\* or image data.
HoldsArgsOrImage(rec) ==
    \/ "args" \in DOMAIN rec
    \/ ("result" \in DOMAIN rec /\ rec.result.kind = "image")

\* C19: no saveMessage call for an assistant message carries image data or
\* the arguments of a tool call, also in a turn in which generateImage
\* returned an image.
C19_NoArgsOrImageSaved ==
    \A k \in DOMAIN store :
        store[k].role = "model"
            => \A j \in DOMAIN store[k].toolCalls :
                   ~HoldsArgsOrImage(store[k].toolCalls[j])

\* The fixed placeholders of a message sent without text, part_000:492.
Placeholders == { <<"(Image)">>, <<"(JSON attached)">>, <<"(CSV attached)">> }

\* The tokens of a text that belong to an attachment prefix or payload.
PayloadIn(text) == Range(text) \cap PrefixTokens

\* The user message of the turn being sent and the record saved for it.
SentUserMsg == chatMessages[Len(chatMessages)]

C20_UserContentIsDisplayText ==
    tpc = "saveUser"
        => /\ SentUserMsg.role = "user"
           /\ (turn.text # <<>> => SentUserMsg.content = turn.text)
           /\ (turn.text = <<>> => SentUserMsg.content \in Placeholders)
           /\ LastSaved.role = "user"
           /\ LastSaved.content = SentUserMsg.content

C20_NoPayloadKept ==
    /\ \A k \in DOMAIN chatMessages :
           chatMessages[k].role = "user" => PayloadIn(chatMessages[k].content) = {}
    /\ \A k \in DOMAIN store :
           store[k].role = "user" => PayloadIn(store[k].content) = {}
    /\ \A k \in DOMAIN history : PayloadIn(history[k].content) = {}

\* C20: the displayed and saved content of a user message is the typed text
\* or a fixed placeholder and never holds the attachment prefix or encoded
\* payload put in the provider prompt; the history passed to the provider
\* on later turns holds no encoded payload either.
C20_UserContentCarriesNoPayload ==
    C20_UserContentIsDisplayText /\ C20_NoPayloadKept

\* A second turn is under way; the prompt of the first carried the encoded
\* CSV (a fresh CSV and a request for Python), and the history of the second
\* holds the user message of the first.
C20_Witness ==
    /\ tpc = "provider"
    /\ turns = 2
    /\ chatMessages[1].role = "user"
    /\ needsBase64(chatMessages[1].csvName, wantPythonOnly(chatMessages[1].content))
    /\ Len(history) = 2
    /\ history[1] = [role |-> "user", content |-> <<"show", "histogram">>]

\* A failed provider call ends the loop that awaited it: nothing is invoked
\* or executed after it (checked under LoopSpec).
LoopFailureIsFinal == [][lpc = "failed" => UNCHANGED loopVars]_vars

C21_ErrorShownAndSaved ==
    caught
        => /\ tpc = "saveModel"
           /\ AssistantMsg.role = "model"
           /\ AssistantMsg.content = errText
           /\ ~AssistantMsg.parts.set
           /\ LastSaved.role = "model"
           /\ LastSaved.content = errText

C21_NothingAfterFailure ==
    /\ (tpc = "provider" /\ caught') => tpc' = "saveModel"
    /\ caught => /\ chatMessages' = chatMessages
                 /\ store' = store
                 /\ stream' \in {stream, NoStream}
                 /\ applied' \in {applied, <<>>}
                 /\ tpc' \in {"saveModel", "idle"}
                 /\ tpc' = "idle" => ~streaming'

\* C21: if a provider call fails at any point of a turn, the provider is not
\* invoked again in that turn, the visible content of the assistant message
\* becomes the error text, that text is what is saved, and the turn ends.
C21_ProviderFailureEndsTurn ==
    []C21_ErrorShownAndSaved /\ [][C21_NothingAfterFailure]_vars

\* A stream failed after its first fragment was applied, with fragments
\* still to come.
C21_Witness ==
    /\ caught
    /\ StreamingTurn
    /\ Len(applied) = 1
    /\ stream.deliveries # <<>>
    /\ LastSaved.content = errText

(***************************************************************************)
(* Attachment and session claims, checked under Spec                       *)
(***************************************************************************)

\* C22: an attachment that is empty or unreadable (a CSV without a non-blank
\* line, a file that is not valid JSON, a JSON file that yields no records)
\* installs no attachment context and leaves all attachment state as it was:
\* no empty record set is ever held, and none is installed over loaded rows.
C22_EmptyAttachmentNotInstalled ==
    /\ sessionJsonData # "empty"
    /\ jsonContext # NULL => sessionJsonData = "videos"

C23_NeverBothActive == ~(sessionCsvRows # NULL /\ sessionJsonData # NULL)

C23_LastLoadedWins ==
    /\ (sessionJsonData' # NULL /\ sessionJsonData' # sessionJsonData)
           => (sessionCsvRows' = NULL /\ csvContext' = NULL)
    /\ (sessionCsvRows' # NULL /\ sessionCsvRows' # sessionCsvRows)
           => (sessionJsonData' = NULL /\ jsonContext' = NULL)

\* C23: after any sequence of file drops and selections, interview entry,
\* sends, new-chat and session selections, tabular rows and structured
\* records are never both active, and after an attachment of one kind is
\* loaded the active context is that kind.
C23_OneContextLastLoadedWins ==
    []C23_NeverBothActive /\ [][C23_LastLoadedWins]_vars

\* Channel data loaded over a CSV loaded earlier, whose summary remains.
C23_Witness ==
    /\ jsonContext # NULL
    /\ sessionJsonData = "videos"
    /\ sessionCsvRows = NULL
    /\ csvDataSummary # NULL

\* Nothing of an attachment is left in the session state.
NoAttachmentContext ==
    /\ sessionCsvRows = NULL
    /\ sessionCsvHeaders = NULL
    /\ csvDataSummary = NULL
    /\ sessionSlimCsv = NULL
    /\ sessionJsonData = NULL

\* The step is a switch to another session or to a new chat while no send
\* is under way, or the removal of an attachment chip by its button.
SessionSwitched ==
    /\ tpc = "idle" /\ tpc' = "idle"
    /\ activeSessionId # NULL
    /\ activeSessionId' # activeSessionId

ChipRemoved ==
    /\ tpc = "idle" /\ tpc' = "idle"
    /\ \/ csvContext # NULL /\ csvContext' = NULL /\ jsonContext' = jsonContext
       \/ jsonContext # NULL /\ jsonContext' = NULL /\ csvContext' = csvContext

\* C24: after a session switch or the removal of an attachment chip no
\* attachment context remains: rows, headers, summary, slim projection and
\* structured records are all cleared.
C24_SwitchClearsAttachments ==
    [][(SessionSwitched \/ ChipRemoved) => NoAttachmentContext']_vars

(***************************************************************************)
(* Claim about two sends, checked under SendSpec                           *)
(***************************************************************************)

\* A call of handleSend at this position has passed part_000:514: it is
\* building or running its turn and has not reached its end.
InTurn(pc) == pc \in {"saveUser", "provider"}

\* C25: at most one turn is in flight at any time: a second handleSend never
\* starts building or dispatching a turn while an earlier turn has not yet
\* reached its end, also when two sends are issued before the first one has
\* finished creating its session.
C25_AtMostOneTurnInFlight == ~(InTurn(tpc) /\ InTurn(tpc2))

(***************************************************************************)
(* Claim about the encoded CSV, checked under ParseSpec                    *)
(***************************************************************************)

\* base64.b64decode of the decode recipe, part_000:438-439.
Decoded(b) == b.base64

\* The prompt prefix says that the data was cut: the template interpolates
\* the truncated flag of the parsed file.
TellsTruncation(pre) == "truncated" \in DOMAIN pre /\ pre.truncated

\* C26: for a source text longer than 500,000 characters the payload in the
\* code-execution prompt covers only its first 500,000 characters and the
\* prompt tells the model that the data was truncated; for a text within
\* the cap the payload decodes to the whole text.
C26_PayloadCappedAndFlagged ==
    (ppc = "built" /\ prefix.form = "base64")
        => IF csvText.length > CsvCap
           THEN /\ Decoded(prefix.base64) = slice(csvText, CsvCap)
                /\ TellsTruncation(prefix)
           ELSE /\ Decoded(prefix.base64) = slice(csvText, csvText.length)
                /\ ~TellsTruncation(prefix)


(***************************************************************************)
(* Claims about sessions, loads and the Stop button around a turn, checked *)
(* under ViewSpec and ViewFairSpec.                                        *)
(***************************************************************************)

\* The messages on display that are part of another session's conversation.
Foreign == { i \in 1..Len(chatMessages) : chatMessages[i].session # activeSessionId }

\* C34: whenever no message load is pending, every message on display
\* belongs to the active session, whatever the order of session selections,
\* loadMessages responses and the steps of a turn in flight.
C34_DisplayedBelongToActive == loads = {} => Foreign = {}

\* C35: every turn that set the in-flight flag eventually clears it, also
\* when the provider fails or a saveMessage call is rejected.
C35_StreamingEventuallyCleared == streaming ~> ~streaming

\* Stop was clicked in the running turn and its stream is not over.
StopPending == stopped /\ tpc \in {"saveUser", "provider"}

\* A stop of the running turn is still recorded in the flag.
C36_StopKept == StopPending => abortRef

\* A turn nobody stopped reaches its stream with the flag cleared.
C36_NoLeftoverStop == (tpc = "provider" /\ ~stopped) => ~abortRef

\* No fragment is applied once Stop was clicked.
C36_NoFragmentAfterStop ==
    (stopped /\ tpc = "provider" /\ tpc' = "provider")
        => turn'.fragments = turn.fragments

\* C36: a stop requested at any moment from streaming = true on is honoured
\* by the turn in flight: it is not lost or overwritten before the streaming
\* loop tests it and no fragment is applied after it; and a stop left over
\* from an earlier turn never cancels a later turn.
C36_StopHonoured ==
    /\ [](C36_StopKept /\ C36_NoLeftoverStop)
    /\ [][C36_NoFragmentAfterStop]_vars

\* What the store holds of turn n, in the order it was appended.
StoredOf(n) == SelectSeq(store, LAMBDA m : m.turn = n)

\* Turn n is over: handleSend returned from its last saveMessage.
Ended(n) == n < turns \/ (n = turns /\ tpc = "idle")

\* The store holds of every turn at most its user message followed by its
\* assistant message, in one session, and both once the turn is over.
C37_TurnsInStore ==
    \A n \in 1..turns :
        LET saved == StoredOf(n)
        IN  /\ Len(saved) <= 2
            /\ Len(saved) >= 1 => saved[1].role = "user"
            /\ Len(saved) = 2 => saved[2].role = "model"
                                 /\ saved[2].session = saved[1].session
            /\ Ended(n) => Len(saved) = 2

\* Whatever is appended to the store is appended to the session the running
\* turn started in.
C37_SavedToTurnSession ==
    store' # store =>
        /\ Len(store') = Len(store) + 1
        /\ SubSeq(store', 1, Len(store)) = store
        /\ store'[Len(store')].turn = turn.n
        /\ store'[Len(store')].session = turn.session

\* C37: each turn appends exactly one user message and then exactly one
\* assistant message to the store, both to the session the turn started in
\* (the one active or created at send time), also when another session or a
\* new chat is selected while the turn is in flight.
C37_OneUserThenOneAssistant ==
    /\ []C37_TurnsInStore
    /\ [][C37_SavedToTurnSession]_vars

\* A turn is over whose assistant message is on display under another
\* session, selected while the turn waited for its first save, and the
\* store holds both messages in the session the turn started in.
C37_Witness ==
    /\ tpc = "idle"
    /\ turns >= 1
    /\ \E i \in Foreign :
           /\ chatMessages[i].turn = turns
           /\ chatMessages[i].role = "model"
           /\ Len(StoredOf(turns)) = 2
           /\ \A k \in 1..2 : StoredOf(turns)[k].session = chatMessages[i].session

====
